---- MODULE Spec2Model ----
(***************************************************************************)
(* A model of the position-matching and performance-accounting engines of  *)
(* stock-logger-v3.  The repository holds several engines; a run executes  *)
(* one of them, named by the variable program:                             *)
(*   "calculator"   py_portfolio_history/calculator.py  PortfolioCalculator *)
(*   "fifo_engine"  py_portfolio_history/fifo_engine.py FifoEngine          *)
(*   "portfolio"    py_portfolio/trade_logic.py         TradeProcessor      *)
(*   "legacy"       trade_logic.py                      TradeProcessor      *)
(*   "snapshot"     portfolio.py                        Portfolio           *)
(* Of portfolio.py the handlers of dividends and of deposits are modelled. *)
(*   "fetcher"      py_datafetcher/fetcher_core.py      FetcherOrchestrator *)
(*                  built with an ErrorLogger                               *)
(*   "datafetcher"  py_datafetcher/datafetcher.py       main                *)
(*   "market_data"  py_portfolio_history/market_data.py MarketDataManager   *)
(*   "csv_parser"   py_csv_parser/csv_parser.py         main                *)
(* Money and quantities are Python Decimals in the source; here they are   *)
(* integers, and the commissions of the inputs are multiples of every      *)
(* quantity so that the pro-rata fee divisions of the source are exact.    *)
(***************************************************************************)
EXTENDS Integers, Sequences, FiniteSets, TLC

\* ---------------------------------------------------------------- bounds
\* Number of events one replay feeds to an engine.
MaxEvents == 3

\* Instruments, and the values the inputs are drawn from.
Symbols == {"A", "B"}
BuyQuantities == {1, 2}
SellQuantities == {0, 1, 3}
Prices == {1, 2}
Commissions == {0, 6}
Amounts == {2}

\* The price files the market data provider reads: "none" holds no price (every
\* lookup falls back to 0.00), "flat" the same close every day, "zigzag" a
\* close that alternates between a high and zero.
Markets == {"none", "flat", "zigzag"}

Programs == {"calculator", "fifo_engine", "portfolio", "legacy", "snapshot",
             "fetcher", "datafetcher", "market_data", "csv_parser"}

VARIABLES
    program,   \* which engine this run executes
    market,    \* which price files the market data provider reads
    clock,     \* number of events processed so far; also the date of the next event
    last,      \* the transaction handed to the engine by the last call
    raised,    \* the exception the last call ended with, "none" if it returned
    calc,      \* PortfolioCalculator: its attributes
    snap_args, \* the arguments _create_snapshot last evaluated for PortfolioSnapshot(...)
    snapshots, \* the snapshots returned so far, oldest first
    fifo,      \* FifoEngine: its attributes
    state,     \* TradeProcessor.state, the PortfolioState of the processor that runs
    processed, \* what the TradeProcessor filled into the ProcessedEvent it returned
    prior      \* the state the processor was in before the event it processed last

vars == <<program, market, clock, last, raised, calc, snap_args, snapshots,
          fifo, state, processed, prior>>

\* ---------------------------------------------------------------- helpers
Min(a, b) == IF a <= b THEN a ELSE b

Max(a, b) == IF a >= b THEN a ELSE b

Abs(a) == IF a >= 0 THEN a ELSE -a

RECURSIVE SumSeq(_)
\* sum(s) of a list of numbers
SumSeq(s) == IF Len(s) = 0 THEN 0 ELSE s[1] + SumSeq(Tail(s))

RECURSIVE SumSet(_)
\* the sum of the values of a dict
SumSet(f) ==
    IF DOMAIN f = {} THEN 0
    ELSE LET x == CHOOSE y \in DOMAIN f : TRUE
         IN f[x] + SumSet([y \in DOMAIN f \ {x} |-> f[y]])

EmptyDict == [x \in {} |-> 0]

NoEvent == [type |-> "NONE"]

NoSnapshot == [built |-> FALSE]

\* ------------------------------------------------- PortfolioCalculator
CalcInit ==
    [cash_balance_eur |-> 0,
     inflows_total |-> 0,
     open_positions |-> EmptyDict,
     closed_trades |-> <<>>,
     cum_trading_pnl |-> 0,
     cum_realized_pnl |-> 0,
     cum_accounting_pnl |-> 0,
     cum_fees |-> 0,
     transaction_count |-> 0,
     high_water_mark |-> 0]

\* t.fx is the rate market_data.get_fx_rate answers for t.currency on t.date.
ConvertToEur(amount, t) ==
    IF t.currency = "EUR" THEN amount ELSE amount * t.fx

\* sum(tr.quantity * tr.price for tr in tranches)
TotalCost(tranches) ==
    SumSeq([i \in 1..Len(tranches) |-> tranches[i].quantity * tranches[i].price])

\* A quotient total_cost / quantity, kept as the pair of its operands.
Ratio(n, d) == [num |-> n, den |-> d]

ZeroRatio == Ratio(0, 1)

\* A snapshot field that refers to the object the portfolio state goes on
\* mutating.
SameObject(obj) == [shared |-> TRUE, value |-> obj]

\* A snapshot field that holds an object nothing else refers to: the result of
\* copy.deepcopy, or a list built for the snapshot.
OwnObject(obj) == [shared |-> FALSE, value |-> obj]

NewPosition(t) ==
    [symbol |-> t.symbol,
     quantity |-> 0,
     avg_entry_price |-> ZeroRatio,
     current_price |-> t.price,
     market_value |-> 0,
     accumulated_fees |-> 0,
     unrealized_pnl |-> 0,
     holding_days |-> 0,
     currency |-> t.currency,
     exchange_rate |-> 1,
     tranches |-> <<>>]

NewTranche(t) ==
    [id |-> t.id, date |-> t.date, quantity |-> t.quantity,
     price |-> t.price, commission |-> t.commission, currency |-> t.currency]

\* dict assignment d[k] = v
Put(d, k, v) == [x \in (DOMAIN d) \cup {k} |-> IF x = k THEN v ELSE d[x]]

\* del d[k]
Del(d, k) == [x \in (DOMAIN d) \ {k} |-> d[x]]

HandleBuy(c, t) ==
    LET pos0 == IF t.symbol \in DOMAIN c.open_positions
                THEN c.open_positions[t.symbol] ELSE NewPosition(t)
        tranches == Append(pos0.tranches, NewTranche(t))
        quantity == pos0.quantity + t.quantity
        total_cost == TotalCost(tranches)
        pos == [pos0 EXCEPT
                  !.tranches = tranches,
                  !.quantity = quantity,
                  !.accumulated_fees = pos0.accumulated_fees + t.commission,
                  !.avg_entry_price =
                      IF quantity > 0 THEN Ratio(total_cost, quantity)
                      ELSE pos0.avg_entry_price]
    IN [c EXCEPT !.open_positions = Put(c.open_positions, t.symbol, pos)]

\* A matcher that takes the oldest tranche first.
PeekIndexOldest(tranches) == 1

\* tranche = pos.tranches[-1]: the tranche a SELL matches next
PeekIndex(tranches) == Len(tranches)

\* s without its i-th element (pos.tranches.pop(), queue.pop(0))
RemoveAt(s, i) == SubSeq(s, 1, i - 1) \o SubSeq(s, i + 1, Len(s))

\* A matcher that pops a used-up tranche only when the order needs more.
FullyClosedWhenMoreNeeded(match_qty, tranche, remaining_qty) ==
    match_qty = tranche.quantity /\ remaining_qty > match_qty

\* A matcher that pops every tranche it matches, used up or not.
FullyClosedOnAnyMatch(match_qty, tranche, remaining_qty) == TRUE

\* if match_qty == tranche.quantity: the tranche is popped, else reduced
FullyClosed(match_qty, tranche, remaining_qty) == match_qty = tranche.quantity

\* A position reduced by the whole order instead of the matched part.
SoldQuantityOrdered(t, remaining_qty) == t.quantity

\* t.quantity - remaining_qty: what the position's quantity is reduced by
SoldQuantity(t, remaining_qty) == t.quantity - remaining_qty

\* The whole commission of the SELL charged to each match.
SellFeeWhole(t, match_qty) == t.commission

\* sell_fee_part = t.commission * (match_qty / t.quantity) if t.quantity > 0 else 0
SellFeePart(t, match_qty) ==
    IF t.quantity > 0 THEN (t.commission * match_qty) \div t.quantity ELSE 0

\* A partial close that leaves the tranche its whole commission.
CommissionKept(commission, buy_fee_part) == commission

\* tranche.commission -= buy_fee_part
ReducedCommission(commission, buy_fee_part) == commission - buy_fee_part

\* One pass of the matching loop of _handle_sell_lifo on the loop state
\* st = [tranches, remaining_qty, accumulated_fees, closed_trades, cum_*].
SellMatch(st, t) ==
    LET idx == PeekIndex(st.tranches)
        tranche == st.tranches[idx]
        match_qty == Min(st.remaining_qty, tranche.quantity)
        unit_buy_fee == IF tranche.quantity > 0
                        THEN tranche.commission \div tranche.quantity ELSE 0
        buy_fee_part == unit_buy_fee * match_qty
        sell_fee_part == SellFeePart(t, match_qty)
        gross_pnl == (t.price - tranche.price) * match_qty
        total_fees == buy_fee_part + sell_fee_part
        real_pnl == gross_pnl - total_fees
        gross_pnl_eur == ConvertToEur(gross_pnl, t)
        real_pnl_eur == ConvertToEur(real_pnl, t)
        closed == [entry_id |-> tranche.id,
                   exit_id |-> t.id,
                   symbol |-> t.symbol,
                   quantity |-> match_qty,
                   entry_date |-> tranche.date,
                   exit_date |-> t.date,
                   entry_price |-> tranche.price,
                   exit_price |-> t.price,
                   gross_pnl |-> gross_pnl_eur,
                   fees |-> ConvertToEur(total_fees, t),
                   real_pnl |-> real_pnl_eur,
                   holding_days |-> t.date - tranche.date,
                   winning_trade |-> (real_pnl > 0)]
        full == FullyClosed(match_qty, tranche, st.remaining_qty)
    IN [tranches |->
            IF full THEN RemoveAt(st.tranches, idx)
            ELSE [st.tranches EXCEPT
                    ![idx] = [tranche EXCEPT
                                !.quantity = tranche.quantity - match_qty,
                                !.commission =
                                    ReducedCommission(tranche.commission, buy_fee_part)]],
        remaining_qty |-> st.remaining_qty - match_qty,
        accumulated_fees |->
            IF full THEN st.accumulated_fees - tranche.commission
            ELSE st.accumulated_fees - buy_fee_part,
        closed_trades |-> Append(st.closed_trades, closed),
        cum_trading_pnl |-> st.cum_trading_pnl + gross_pnl_eur,
        cum_realized_pnl |-> st.cum_realized_pnl + real_pnl_eur,
        cum_accounting_pnl |-> st.cum_accounting_pnl + real_pnl_eur]

\* The matching loop left after its first match.
SellLoopFirstMatch(st, t) ==
    IF st.remaining_qty > 0 /\ st.tranches # <<>>
    THEN SellMatch(st, t)
    ELSE st

RECURSIVE SellLoop(_, _)
\* while remaining_qty > 0 and pos.tranches: ...
SellLoop(st, t) ==
    IF st.remaining_qty > 0 /\ st.tranches # <<>>
    THEN SellLoop(SellMatch(st, t), t)
    ELSE st

HandleSellLifo(c, t) ==
    IF t.symbol \notin DOMAIN c.open_positions
    THEN c
    ELSE
        LET pos0 == c.open_positions[t.symbol]
            st == SellLoop([tranches |-> pos0.tranches,
                            remaining_qty |-> t.quantity,
                            accumulated_fees |-> pos0.accumulated_fees,
                            closed_trades |-> c.closed_trades,
                            cum_trading_pnl |-> c.cum_trading_pnl,
                            cum_realized_pnl |-> c.cum_realized_pnl,
                            cum_accounting_pnl |-> c.cum_accounting_pnl], t)
            quantity == pos0.quantity - SoldQuantity(t, st.remaining_qty)
            pos == [pos0 EXCEPT
                      !.tranches = st.tranches,
                      !.accumulated_fees = st.accumulated_fees,
                      !.quantity = quantity,
                      !.avg_entry_price =
                          IF quantity > 0
                          THEN Ratio(TotalCost(st.tranches), quantity)
                          ELSE ZeroRatio]
        IN [c EXCEPT
              !.closed_trades = st.closed_trades,
              !.cum_trading_pnl = st.cum_trading_pnl,
              !.cum_realized_pnl = st.cum_realized_pnl,
              !.cum_accounting_pnl = st.cum_accounting_pnl,
              !.open_positions =
                  IF quantity = 0 THEN Del(c.open_positions, t.symbol)
                  ELSE Put(c.open_positions, t.symbol, pos)]

\* MarketDataManager.get_fx_rate: 1.0 for the same currency, else the stored rate.
GetFxRate(currency, rate) == IF currency = "EUR" THEN 1 ELSE rate

\* A price lookup by the number of events seen so far in place of the date asked.
GetMarketPriceByCount(files, date) ==
    CASE files = "flat" -> 3
      [] files = "zigzag" -> IF clock % 2 = 1 THEN 3 ELSE 0
      [] OTHER -> 0

\* MarketDataManager.get_market_price: the close stored for the date, else 0.00.
GetMarketPrice(files, date) ==
    CASE files = "flat" -> 3
      [] files = "zigzag" -> IF date % 2 = 1 THEN 3 ELSE 0
      [] OTHER -> 0

RECURSIVE MinDate(_)
\* min(tr.date for tr in tranches)
MinDate(tranches) ==
    IF Len(tranches) = 1 THEN tranches[1].date
    ELSE Min(tranches[1].date, MinDate(Tail(tranches)))

\* A valuation that adds the day's value to the value the position carries.
ValuePositionAccruing(pos, timestamp, md) ==
    LET price == GetMarketPrice(md.files, timestamp)
        fx_rate == GetFxRate(pos.currency, md.fx)
        mv_eur == pos.market_value + pos.quantity * (price * fx_rate)
    IN [pos EXCEPT
          !.current_price = price,
          !.market_value = mv_eur,
          !.exchange_rate = fx_rate]

\* The valuation loop of _create_snapshot on one position; md.files are the
\* price files get_market_price reads, md.fx what get_fx_rate answers.
ValuePosition(pos, timestamp, md) ==
    LET price == GetMarketPrice(md.files, timestamp)
        fx_rate == GetFxRate(pos.currency, md.fx)
        mv_eur == pos.quantity * (price * fx_rate)
        \* avg_entry_price * quantity * fx_rate, the quotient kept exact
        cost_basis_eur ==
            (pos.avg_entry_price.num * pos.quantity * fx_rate) \div pos.avg_entry_price.den
        first_date == MinDate(pos.tranches)
    IN [pos EXCEPT
          !.current_price = price,
          !.market_value = mv_eur,
          !.exchange_rate = fx_rate,
          !.unrealized_pnl = mv_eur - cost_basis_eur,
          !.holding_days = IF pos.tranches # <<>> THEN timestamp - first_date
                           ELSE pos.holding_days]

\* A drawdown left as a fraction of the high-water mark.
DrawdownFraction(high_water_mark, adj_equity) ==
    IF high_water_mark > 0
    THEN Ratio(high_water_mark - adj_equity, high_water_mark)
    ELSE ZeroRatio

\* The drawdown percentage (hwm - adj) / hwm * 100, as numerator and denominator.
Drawdown(high_water_mark, adj_equity) ==
    IF high_water_mark > 0
    THEN Ratio((high_water_mark - adj_equity) * 100, high_water_mark)
    ELSE ZeroRatio

\* A high-water mark that follows the adjusted equity down.
HighWaterMarkReset(high_water_mark, adj_equity) == adj_equity

\* if adj_equity > self.high_water_mark: self.high_water_mark = adj_equity
NewHighWaterMark(high_water_mark, adj_equity) ==
    IF adj_equity > high_water_mark THEN adj_equity ELSE high_water_mark

\* sum(t.gross_pnl for t in closed_trades if t.gross_pnl > 0)
GrossWins(closed_trades) ==
    SumSeq([i \in 1..Len(closed_trades) |->
               IF closed_trades[i].gross_pnl > 0 THEN closed_trades[i].gross_pnl ELSE 0])

\* abs(sum(t.gross_pnl for t in closed_trades if t.gross_pnl <= 0))
GrossLosses(closed_trades) ==
    Abs(SumSeq([i \in 1..Len(closed_trades) |->
                   IF closed_trades[i].gross_pnl <= 0 THEN closed_trades[i].gross_pnl ELSE 0]))

\* _calc_win_rate: wins / len(closed_trades) * 100
CalcWinRate(closed_trades) ==
    IF closed_trades = <<>> THEN ZeroRatio
    ELSE Ratio(100 * Cardinality({i \in 1..Len(closed_trades) :
                                     closed_trades[i].winning_trade}),
               Len(closed_trades))

\* _calc_profit_factor
CalcProfitFactor(closed_trades) ==
    IF GrossLosses(closed_trades) = 0
    THEN (IF GrossWins(closed_trades) > 0 THEN Ratio(999, 1) ELSE ZeroRatio)
    ELSE Ratio(GrossWins(closed_trades), GrossLosses(closed_trades))

\* _calc_expectancy: win_rate * avg_win - (1 - win_rate) * avg_loss, which is
\* (sum of wins - sum of losses) / len(closed_trades)
CalcExpectancy(closed_trades) ==
    IF closed_trades = <<>> THEN ZeroRatio
    ELSE Ratio(GrossWins(closed_trades) - GrossLosses(closed_trades),
               Len(closed_trades))

\* PerformanceMetrics(...) as _create_snapshot fills it
Metrics(c) ==
    [trading_pnl |-> c.cum_trading_pnl,
     realized_pnl |-> c.cum_realized_pnl,
     accounting_pnl |-> c.cum_accounting_pnl,
     fees_total |-> c.cum_fees,
     inflows_total |-> c.inflows_total,
     win_rate |-> CalcWinRate(c.closed_trades),
     profit_factor |-> CalcProfitFactor(c.closed_trades),
     expectancy |-> CalcExpectancy(c.closed_trades),
     closed_trades_count |-> Len(c.closed_trades),
     open_positions_count |-> Cardinality(DOMAIN c.open_positions),
     total_transactions_count |-> c.transaction_count]

TotalEquity(cash_balance_eur, total_market_value) ==
    cash_balance_eur + total_market_value

\* _create_snapshot: revalues the open positions in place, moves the high-water
\* mark, and evaluates the arguments of PortfolioSnapshot(...).  The result is
\* the calculator after the call and those arguments.
CreateSnapshot(c, timestamp, md) ==
    LET valued == [s \in DOMAIN c.open_positions |->
                      ValuePosition(c.open_positions[s], timestamp, md)]
        total_market_value == SumSet([sym \in DOMAIN valued |-> valued[sym].market_value])
        invested == total_market_value
        total_equity == TotalEquity(c.cash_balance_eur, total_market_value)
        adj_equity == total_equity - c.inflows_total
        hwm == NewHighWaterMark(c.high_water_mark, adj_equity)
        dd == Drawdown(hwm, adj_equity)
    IN [calc |-> [c EXCEPT !.open_positions = valued, !.high_water_mark = hwm],
        args |-> [built |-> TRUE,
                  date |-> timestamp,
                  cash |-> c.cash_balance_eur,
                  invested |-> invested,
                  market_value_total |-> total_market_value,
                  total_equity |-> total_equity,
                  inflows |-> c.inflows_total,
                  drawdown |-> dd,
                  performance |-> Metrics(c),
                  positions |-> OwnObject(valued)]]

\* PortfolioSnapshot declares the fields date, cash, collateral, invested, ...
\* without defaults; its constructor raises TypeError when one is not passed.
SnapshotFields ==
    {"date", "cash", "collateral", "invested", "market_value_total",
     "total_equity", "inflows", "drawdown", "performance", "positions"}

\* The keyword arguments _create_snapshot passes to PortfolioSnapshot(...).
SnapshotKeywords ==
    {"date", "cash", "invested", "market_value_total",
     "total_equity", "inflows", "drawdown", "performance", "positions"}

ConstructorRaises == SnapshotFields \ SnapshotKeywords # {}

\* _process_trade up to its call of _create_snapshot
ProcessTradeState(c, t) ==
    LET total_value_eur == ConvertToEur(t.price * t.quantity, t)
        fees_eur == ConvertToEur(t.commission, t)
        c1 == [c EXCEPT !.transaction_count = c.transaction_count + 1,
                        !.cum_fees = c.cum_fees + fees_eur]
    IN IF t.type = "BUY"
       THEN HandleBuy([c1 EXCEPT !.cash_balance_eur =
                           c1.cash_balance_eur - (total_value_eur + fees_eur)], t)
       ELSE HandleSellLifo([c1 EXCEPT !.cash_balance_eur =
                           c1.cash_balance_eur + (total_value_eur - fees_eur)], t)

\* A cash movement that is booked on the cash balance alone.
ProcessCashStateCashOnly(c, t) ==
    LET amount_eur == ConvertToEur(t.quantity, t)
    IN IF t.type = "DEPOSIT"
       THEN [c EXCEPT !.cash_balance_eur = c.cash_balance_eur + amount_eur]
       ELSE [c EXCEPT !.cash_balance_eur = c.cash_balance_eur - amount_eur]

\* _process_cash up to its call of _create_snapshot
ProcessCashState(c, t) ==
    LET amount_eur == ConvertToEur(t.quantity, t)
    IN IF t.type = "DEPOSIT"
       THEN [c EXCEPT !.cash_balance_eur = c.cash_balance_eur + amount_eur,
                      !.inflows_total = c.inflows_total + amount_eur]
       ELSE [c EXCEPT !.cash_balance_eur = c.cash_balance_eur - amount_eur,
                      !.inflows_total = c.inflows_total - amount_eur]

\* _process_dividend up to its call of _create_snapshot
ProcessDividendState(c, t) ==
    LET amount_eur == ConvertToEur(t.quantity, t)
    IN [c EXCEPT !.cash_balance_eur = c.cash_balance_eur + amount_eur,
                 !.inflows_total = c.inflows_total + amount_eur,
                 !.cum_accounting_pnl = c.cum_accounting_pnl + amount_eur]

\* ---------------------------------------------------------- FifoEngine
FifoInit == [open_tranches |-> EmptyDict, closed_trades |-> <<>>]

\* _add_tranche: the trade itself becomes the tranche
AddTranche(f, trade) ==
    LET queue == IF trade.symbol \in DOMAIN f.open_tranches
                 THEN f.open_tranches[trade.symbol] ELSE <<>>
    IN [f EXCEPT !.open_tranches =
            Put(f.open_tranches, trade.symbol, Append(queue, trade))]

\* One pass of the matching loop of FifoEngine.process_trade on the loop
\* state st = [queue, remaining_qty, closed_trades].
FifoMatch(st, trade) ==
    LET buy_tranche == st.queue[1]
        match_qty == Min(st.remaining_qty, buy_tranche.quantity)
        \* buy_tranche.commission * (match_qty / buy_tranche.quantity)
        buy_fee_part == IF buy_tranche.quantity > 0
                        THEN (buy_tranche.commission * match_qty) \div buy_tranche.quantity
                        ELSE 0
        sell_fee_part == (trade.commission * match_qty) \div trade.quantity
        gross == (trade.price - buy_tranche.price) * match_qty
        fees == buy_fee_part + sell_fee_part
        real == gross + fees
        closed == [entry_id |-> buy_tranche.id,
                   exit_id |-> trade.id,
                   symbol |-> trade.symbol,
                   quantity |-> match_qty,
                   entry_date |-> buy_tranche.date,
                   exit_date |-> trade.date,
                   entry_price |-> buy_tranche.price,
                   exit_price |-> trade.price,
                   gross_pnl |-> gross,
                   fees |-> fees,
                   real_pnl |-> real,
                   holding_days |-> trade.date - buy_tranche.date,
                   winning_trade |-> (real > 0)]
    IN [queue |->
            IF match_qty = buy_tranche.quantity THEN Tail(st.queue)
            ELSE [st.queue EXCEPT
                    ![1] = [buy_tranche EXCEPT
                              !.quantity = buy_tranche.quantity - match_qty,
                              !.commission = buy_tranche.commission - buy_fee_part]],
        remaining_qty |-> st.remaining_qty - match_qty,
        closed_trades |-> Append(st.closed_trades, closed)]

RECURSIVE FifoLoop(_, _)
\* while remaining_qty > 0 and queue: ...
FifoLoop(st, trade) ==
    IF st.remaining_qty > 0 /\ st.queue # <<>>
    THEN FifoLoop(FifoMatch(st, trade), trade)
    ELSE st

\* FifoEngine.process_trade; what is left of an oversized SELL is dropped.
FifoProcessTrade(f, trade) ==
    IF trade.type = "BUY" THEN AddTranche(f, trade)
    ELSE IF trade.type = "SELL" /\ trade.symbol \in DOMAIN f.open_tranches
    THEN LET st == FifoLoop([queue |-> f.open_tranches[trade.symbol],
                             remaining_qty |-> trade.quantity,
                             closed_trades |-> f.closed_trades], trade)
         IN [f EXCEPT !.open_tranches[trade.symbol] = st.queue,
                      !.closed_trades = st.closed_trades]
    ELSE f

\* ----------------------------------- TradeProcessor (py_portfolio)
\* PortfolioState of py_portfolio/alm_types.py
StateInit ==
    [cash_balance |-> 0,
     cum_inflow |-> 0,
     cum_trading_pnl |-> 0,
     cum_real_pnl |-> 0,
     cum_accounting_pnl |-> 0,
     gross_profit_trading |-> 0,
     gross_loss_trading |-> 0,
     wins_trading |-> 0,
     losses_trading |-> 0,
     adjusted_equity_high_watermark |-> 0,
     open_positions |-> EmptyDict]

\* FileMarketDataProvider.get_fx_rate: 1.0 for EUREUR, else the stored rate.
ProviderFxRate(raw) == IF raw.currency = "EUR" THEN 1 ELSE raw.fx

\* self.state.open_positions[symbol], created empty on the first trade
LotsOf(st, symbol) ==
    IF symbol \in DOMAIN st.open_positions THEN st.open_positions[symbol] ELSE <<>>

\* The order closes lots when its sign is opposite to the first lot's.
IsClosing(open_positions, raw) ==
    /\ open_positions # <<>>
    /\ \/ (raw.quantity > 0 /\ open_positions[1].qty < 0)
       \/ (raw.quantity < 0 /\ open_positions[1].qty > 0)

\* One pass of the closing loop of _process_trade on the loop state
\* lp = [lots, remaining_qty, pnl_trading, pnl_accounting, consumed_opening_fees].
CloseMatch(lp, raw, fx_rate) ==
    LET match_pos == lp.lots[1]
        match_qty == match_pos.qty
        full == Abs(lp.remaining_qty) >= Abs(match_qty)
        fill_qty == IF full THEN -match_qty ELSE lp.remaining_qty
        units == Abs(fill_qty)
        is_long == IF full THEN match_qty > 0 ELSE (-fill_qty) > 0
        entry_p == match_pos.price
        exit_p == raw.price
        trading == IF is_long THEN (exit_p - entry_p) * units
                   ELSE (entry_p - exit_p) * units
        accounting == IF is_long
                      THEN ((exit_p * fx_rate) - (entry_p * match_pos.fx)) * units
                      ELSE ((entry_p * match_pos.fx) - (exit_p * fx_rate)) * units
    IN [lots |-> IF full THEN Tail(lp.lots)
                 ELSE [lp.lots EXCEPT ![1].qty = match_qty - (-fill_qty)],
        remaining_qty |-> IF full THEN lp.remaining_qty - fill_qty ELSE 0,
        pnl_trading |-> lp.pnl_trading + trading,
        pnl_accounting |-> lp.pnl_accounting + accounting,
        consumed_opening_fees |->
            lp.consumed_opening_fees + match_pos.fees_unit * units]

RECURSIVE CloseLoop(_, _, _)
\* while remaining_qty != 0 and open_positions: ...
CloseLoop(lp, raw, fx_rate) ==
    IF lp.remaining_qty # 0 /\ lp.lots # <<>>
    THEN CloseLoop(CloseMatch(lp, raw, fx_rate), raw, fx_rate)
    ELSE lp

NewLot(raw, qty, fx_rate, fees_unit) ==
    [price |-> raw.price, date |-> raw.date, qty |-> qty, fx |-> fx_rate,
     fees_unit |-> fees_unit]

\* TradeProcessor._process_trade up to its call of _generate_snapshot
TradeState(st, raw) ==
    LET fx_rate == ProviderFxRate(raw)
        open_positions == LotsOf(st, raw.symbol)
        cash_impact == -(raw.quantity * raw.price * fx_rate) - raw.commission
        st1 == [st EXCEPT !.cash_balance = st.cash_balance + cash_impact]
    IN IF ~IsClosing(open_positions, raw)
       THEN LET fees_unit == IF raw.quantity # 0
                             THEN raw.commission \div Abs(raw.quantity) ELSE 0
            IN [st1 EXCEPT !.open_positions =
                    Put(st.open_positions, raw.symbol,
                        Append(open_positions,
                               NewLot(raw, raw.quantity, fx_rate, fees_unit)))]
       ELSE LET lp == CloseLoop([lots |-> open_positions,
                                 remaining_qty |-> raw.quantity,
                                 pnl_trading |-> 0,
                                 pnl_accounting |-> 0,
                                 consumed_opening_fees |-> 0], raw, fx_rate)
                lots == IF lp.remaining_qty # 0
                        THEN Append(lp.lots, NewLot(raw, lp.remaining_qty, fx_rate, 0))
                        ELSE lp.lots
                pnl_trading_eur == lp.pnl_trading * fx_rate
                costs == lp.consumed_opening_fees + raw.commission
            IN [st1 EXCEPT
                  !.open_positions = Put(st.open_positions, raw.symbol, lots),
                  !.cum_trading_pnl = st.cum_trading_pnl + pnl_trading_eur,
                  !.cum_real_pnl = st.cum_real_pnl + (pnl_trading_eur - costs),
                  !.cum_accounting_pnl =
                      st.cum_accounting_pnl + (lp.pnl_accounting - costs),
                  !.gross_profit_trading =
                      IF pnl_trading_eur > 0 THEN st.gross_profit_trading + pnl_trading_eur
                      ELSE st.gross_profit_trading,
                  !.wins_trading =
                      IF pnl_trading_eur > 0 THEN st.wins_trading + 1
                      ELSE st.wins_trading,
                  !.gross_loss_trading =
                      IF pnl_trading_eur < 0
                      THEN st.gross_loss_trading + Abs(pnl_trading_eur)
                      ELSE st.gross_loss_trading,
                  !.losses_trading =
                      IF pnl_trading_eur < 0 THEN st.losses_trading + 1
                      ELSE st.losses_trading]

\* A transfer that is booked as income as well.
TransferStateAsIncome(st, raw) ==
    [st EXCEPT !.cash_balance = st.cash_balance + raw.amount,
               !.cum_inflow = st.cum_inflow + raw.amount,
               !.cum_accounting_pnl = st.cum_accounting_pnl + raw.amount]

\* TradeProcessor._process_transfer up to its call of _generate_snapshot
TransferState(st, raw) ==
    [st EXCEPT !.cash_balance = st.cash_balance + raw.amount,
               !.cum_inflow = st.cum_inflow + raw.amount]

\* TradeProcessor._process_dividend up to its call of _generate_snapshot
DividendState(st, raw) ==
    [st EXCEPT !.cash_balance = st.cash_balance + raw.amount]

\* sum(l['qty'] for l in lots)
QtySum(lots) == SumSeq([i \in 1..Len(lots) |-> lots[i].qty])

\* sum(l['qty'] * l['price'] * l['fx'] for l in lots)
CostSum(lots) ==
    SumSeq([i \in 1..Len(lots) |-> lots[i].qty * lots[i].price * lots[i].fx])

\* float('inf'), as a quotient without a denominator.
Infinity == Ratio(1, 0)

\* _calc_pf: gross_profit_trading / gross_loss_trading
CalcPf(st) ==
    IF st.gross_loss_trading = 0
    THEN (IF st.gross_profit_trading > 0 THEN Infinity ELSE ZeroRatio)
    ELSE Ratio(st.gross_profit_trading, st.gross_loss_trading)

\* _calc_wr: wins_trading / total * 100.0
CalcWr(st) ==
    IF st.wins_trading + st.losses_trading > 0
    THEN Ratio(st.wins_trading * 100, st.wins_trading + st.losses_trading)
    ELSE ZeroRatio

\* Position(symbol, quantity, value, avg_entry_price, accumulated_fees) of one
\* symbol's lots; the average is kept as cost_basis over qty_sum.
PositionOf(sym, lots, current_price) ==
    [symbol |-> sym,
     quantity |-> QtySum(lots),
     value |-> QtySum(lots) * current_price,
     avg_entry_price |-> Ratio(CostSum(lots), QtySum(lots)),
     accumulated_fees |->
         SumSeq([i \in 1..Len(lots) |-> lots[i].fees_unit * Abs(lots[i].qty)])]

\* _generate_snapshot: reads the state and builds the Snapshot of the event;
\* a symbol is valued at the price of the event if it is the event's symbol,
\* else at 0, and left out when its lots sum to zero.
GenerateSnapshot(st, raw) ==
    LET held == {sym \in DOMAIN st.open_positions :
                    /\ st.open_positions[sym] # <<>>
                    /\ QtySum(st.open_positions[sym]) # 0}
        price == IF raw.type \in {"BUY", "SELL"} THEN raw.price ELSE 0
        MarketVal(sym) ==
            QtySum(st.open_positions[sym])
                * (IF raw.symbol = sym THEN price ELSE 0)
        total_market_value == SumSet([sym \in held |-> MarketVal(sym)])
    IN [event_id |-> raw.id,
        inflows |-> st.cum_inflow,
        cash |-> st.cash_balance,
        invested |-> SumSet([sym \in held |-> CostSum(st.open_positions[sym])]),
        market_value |-> total_market_value,
        total_equity |-> st.cash_balance + total_market_value,
        performance |-> [trading_pnl |-> st.cum_trading_pnl,
                         real_pnl |-> st.cum_real_pnl,
                         accounting_pnl |-> st.cum_accounting_pnl,
                         profit_factor |-> CalcPf(st),
                         win_rate |-> CalcWr(st)],
        positions |->
            OwnObject([sym \in held |->
                          PositionOf(sym, st.open_positions[sym],
                                     IF raw.symbol = sym THEN price ELSE 0)])]

\* ------------------------------------------ TradeProcessor (trade_logic.py)
\* PortfolioState of alm_types.py
LegacyInit ==
    [total_equity |-> 0,
     cum_trading_pnl |-> 0,
     cum_inflow |-> 0,
     gross_profit |-> 0,
     gross_loss |-> 0,
     wins |-> 0,
     losses |-> 0,
     equity_high_watermark |-> 0,
     adjusted_equity_high_watermark |-> 0,
     open_positions |-> EmptyDict]

\* One pass of the closing loop of the legacy _process_trade on the loop state
\* lp = [lots, remaining_qty, total_pnl].
LegacyCloseMatch(lp, raw, fx_rate) ==
    LET match_pos == lp.lots[1]
        match_qty == match_pos.qty
        full == Abs(lp.remaining_qty) >= Abs(match_qty)
        fill_qty == IF full THEN -match_qty ELSE lp.remaining_qty
        consumed_match == -fill_qty
        left == match_qty - consumed_match
        units == Abs(fill_qty)
        is_long == IF full THEN match_qty > 0
                   ELSE IF left + consumed_match > 0 THEN left > 0
                   ELSE consumed_match > 0
        exit_val == raw.price * fx_rate
        entry_val == match_pos.price * match_pos.fx
        chunk_pnl == IF is_long THEN (exit_val - entry_val) * units
                     ELSE (entry_val - exit_val) * units
    IN [lots |-> IF full THEN Tail(lp.lots)
                 ELSE [lp.lots EXCEPT ![1].qty = left],
        remaining_qty |-> IF full THEN lp.remaining_qty - fill_qty ELSE 0,
        total_pnl |-> lp.total_pnl + chunk_pnl]

RECURSIVE LegacyCloseLoop(_, _, _)
\* while remaining_qty != 0 and open_positions: ...
LegacyCloseLoop(lp, raw, fx_rate) ==
    IF lp.remaining_qty # 0 /\ lp.lots # <<>>
    THEN LegacyCloseLoop(LegacyCloseMatch(lp, raw, fx_rate), raw, fx_rate)
    ELSE lp

LegacyLot(raw, qty, fx_rate) ==
    [price |-> raw.price, date |-> raw.date, qty |-> qty, fx |-> fx_rate]

\* The legacy _process_trade up to its call of _update_metrics; the result is
\* the state and the pnl of the event.
LegacyTradeState(st, raw) ==
    LET fx_rate == ProviderFxRate(raw)
        open_positions == LotsOf(st, raw.symbol)
    IN IF ~IsClosing(open_positions, raw)
       THEN [state |-> [st EXCEPT !.open_positions =
                           Put(st.open_positions, raw.symbol,
                               Append(open_positions,
                                      LegacyLot(raw, raw.quantity, fx_rate)))],
             pnl |-> 0]
       ELSE LET lp == LegacyCloseLoop([lots |-> open_positions,
                                       remaining_qty |-> raw.quantity,
                                       total_pnl |-> 0], raw, fx_rate)
                lots == IF lp.remaining_qty # 0
                        THEN Append(lp.lots, LegacyLot(raw, lp.remaining_qty, fx_rate))
                        ELSE lp.lots
                total_pnl == lp.total_pnl
            IN [state |->
                  [st EXCEPT
                     !.open_positions = Put(st.open_positions, raw.symbol, lots),
                     !.cum_trading_pnl = st.cum_trading_pnl + total_pnl,
                     !.gross_profit = IF total_pnl > 0 THEN st.gross_profit + total_pnl
                                      ELSE st.gross_profit,
                     !.wins = IF total_pnl > 0 THEN st.wins + 1 ELSE st.wins,
                     !.gross_loss = IF total_pnl < 0 THEN st.gross_loss + Abs(total_pnl)
                                    ELSE st.gross_loss,
                     !.losses = IF total_pnl < 0 THEN st.losses + 1 ELSE st.losses,
                     !.total_equity = st.total_equity + total_pnl],
                pnl |-> total_pnl]

\* The legacy _process_transfer and _process_dividend up to _update_metrics
LegacyTransferState(st, raw) ==
    [st EXCEPT !.total_equity = st.total_equity + raw.amount,
               !.cum_inflow = st.cum_inflow + raw.amount]

LegacyDividendState(st, raw) ==
    [st EXCEPT !.total_equity = st.total_equity + raw.amount]

\* if adj_equity > hwm: hwm = adj_equity
LegacyHighWatermark(hwm, adj_equity) ==
    IF adj_equity > hwm THEN adj_equity ELSE hwm

\* _update_metrics: moves the adjusted-equity high-water mark and fills the
\* cumulative metrics of the ProcessedEvent; the drawdown is a negative percentage.
UpdateMetrics(st, raw, equity_change) ==
    LET adj_equity == st.total_equity - st.cum_inflow
        hwm == LegacyHighWatermark(st.adjusted_equity_high_watermark, adj_equity)
    IN [state |-> [st EXCEPT !.adjusted_equity_high_watermark = hwm],
        processed |->
            [event_id |-> raw.id,
             equity_change |-> equity_change,
             total_equity |-> st.total_equity,
             equity_curve |-> st.cum_trading_pnl,
             cum_inflow |-> st.cum_inflow,
             drawdown |-> IF hwm > 0 THEN Ratio(-((hwm - adj_equity) * 100), hwm)
                          ELSE ZeroRatio]]

\* ---------------------------------------------------------------- inputs
Currencies == {"EUR", "USD"}

FxRates == {1, 2}

\* The currency an instrument trades in.
CurrencyOf(symbol) == IF symbol = "B" THEN "USD" ELSE "EUR"

\* MarketDataManager.get_fx_rate for USD: the rate of the price files, 1.0
\* when there is none.
StoredFxRate(files) == IF files = "none" THEN 1 ELSE 2

\* What XmlInputParser.parse_trades builds: BUY for a positive quantity,
\* SELL with the magnitude otherwise (zero included), commission as a magnitude.
AllTrades ==
    [type : {"BUY"}, symbol : Symbols, quantity : BuyQuantities,
     price : Prices, commission : Commissions, currency : Currencies, fx : FxRates]
    \cup
    [type : {"SELL"}, symbol : Symbols, quantity : SellQuantities,
     price : Prices, commission : Commissions, currency : Currencies, fx : FxRates]

\* The trades a replay draws from: each instrument in its currency, at the
\* rate of the price files; the second instrument is bought at 1 and sold at 2,
\* one unit at a time and without commission, a commission is charged on
\* orders at price 1 only, and an order of quantity zero comes in one form only.
TradesOver(files) ==
    {e \in AllTrades :
        /\ e.currency = CurrencyOf(e.symbol)
        /\ e.fx = StoredFxRate(files)
        /\ e.symbol = "B" =>
              /\ e.quantity = 1
              /\ e.commission = 0
              /\ e.price = (IF e.type = "BUY" THEN 1 ELSE 2)
        /\ e.commission > 0 => e.price = 1
        /\ e.quantity = 0 => (e.price = 1 /\ e.commission = 0)}

TradesByMarket == [files \in Markets |-> TradesOver(files)]

TradeInputs == TradesByMarket[market]

\* What parse_cash builds: the amount in quantity, price 1, commission 0.
\* Deposits and withdrawals in EUR, and a deposit in USD at the rate of the
\* price files.
CashOver(files) ==
    [type : {"DEPOSIT", "WITHDRAWAL"}, symbol : {""}, quantity : Amounts,
     price : {1}, commission : {0}, currency : {"EUR"}, fx : {1}]
    \cup
    [type : {"DEPOSIT"}, symbol : {""}, quantity : Amounts,
     price : {1}, commission : {0}, currency : {"USD"}, fx : {StoredFxRate(files)}]

CashByMarket == [files \in Markets |-> CashOver(files)]

CashInputs == CashByMarket[market]

DividendInputs ==
    [type : {"DIVIDEND"}, symbol : {"A"}, quantity : Amounts,
     price : {1}, commission : {0}, currency : {"EUR"}, fx : {1}]

\* A transaction of a kind process_transaction has no handler for.
UnknownInputs ==
    [type : {"INTEREST"}, symbol : {"A"}, quantity : Amounts,
     price : {1}, commission : {0}, currency : {"EUR"}, fx : {1}]

\* What TradeLogParser builds for the TradeProcessors: the quantity keeps its
\* sign (BUY when positive, SELL otherwise, zero included).
RawTradesOver(files) ==
    {[type |-> e.type, symbol |-> e.symbol,
      quantity |-> IF e.type = "BUY" THEN e.quantity ELSE -e.quantity,
      price |-> e.price, commission |-> e.commission, amount |-> 0,
      currency |-> e.currency, fx |-> e.fx] : e \in TradesOver(files)}

RawTradesByMarket == [files \in Markets |-> RawTradesOver(files)]

RawTrades == RawTradesByMarket[market]

\* A transfer is an INFLOW when its amount is positive, an OUTFLOW otherwise.
RawTransfers ==
    {[type |-> IF a > 0 THEN "INFLOW" ELSE "OUTFLOW", symbol |-> "",
      quantity |-> 0, price |-> 0, commission |-> 0, amount |-> a,
      currency |-> "EUR", fx |-> 1] : a \in Amounts \cup {-a : a \in Amounts}}

RawDividends ==
    {[type |-> "DIVIDEND", symbol |-> "A", quantity |-> 0, price |-> 0,
      commission |-> 0, amount |-> a, currency |-> "EUR", fx |-> 1] : a \in Amounts}

\* A RawEvent of a kind that is not a TransactionType.
RawUnknown ==
    {[type |-> "INTEREST", symbol |-> "", quantity |-> 0, price |-> 0,
      commission |-> 0, amount |-> a, currency |-> "EUR", fx |-> 1] : a \in Amounts}

\* The event with its id and timestamp: events arrive sorted, one per tick.
Stamp(e) == e @@ [id |-> clock + 1, date |-> clock + 1]

\* ------------------------------------------------ Portfolio (portfolio.py)
\* Portfolio.__init__: the attributes process_dividend and process_deposit use
BookInit == [cash_balance |-> EmptyDict, dividends_eur |-> 0, inflow_eur |-> 0]

\* The answer of a lookup that returns None.
NoRate == [found |-> FALSE, rate |-> 0]

\* A lookup that answers 1.0 where no rate is stored.
OneWhenMissing(currency, files) ==
    [found |-> TRUE,
     rate |-> IF currency = "EUR" \/ files = "none" THEN 1 ELSE StoredFxRate(files)]

\* MarketData.get_fx_rate(f"{currency}EUR", date) of portfolio.py: 1.0 for the
\* same currency, None when no file or no rate within ten days is there.
MarketDataFxRate(currency, files) ==
    IF currency = "EUR" THEN [found |-> TRUE, rate |-> 1]
    ELSE IF files = "none" THEN NoRate
    ELSE [found |-> TRUE, rate |-> StoredFxRate(files)]

\* self.cash_balance.setdefault(currency, 0); self.cash_balance[currency] += amount
AddCash(cash_balance, currency, amount) ==
    Put(cash_balance, currency,
        (IF currency \in DOMAIN cash_balance THEN cash_balance[currency] ELSE 0) + amount)

\* The --start date of the report.
StartDate == 2

\* Portfolio.process_dividend(dividend, dividend_date, start_date)
BookDividendState(b, d) ==
    LET fx_rate == MarketDataFxRate(d.currency, market)
        paid == [b EXCEPT !.cash_balance = AddCash(b.cash_balance, d.currency, d.amount)]
    IN IF d.date >= StartDate /\ fx_rate.found /\ fx_rate.rate # 0
       THEN [paid EXCEPT !.dividends_eur = b.dividends_eur + d.amount * fx_rate.rate]
       ELSE paid

TransferDesc == "Elektronischer Guthabentransfer"

\* Portfolio.process_deposit(transaction)
BookDepositState(b, tr) ==
    LET fx_rate == MarketDataFxRate(tr.currency, market)
        paid == [b EXCEPT !.cash_balance = AddCash(b.cash_balance, tr.currency, tr.amount)]
    IN IF tr.desc = TransferDesc /\ fx_rate.found /\ fx_rate.rate # 0
       THEN [paid EXCEPT !.inflow_eur = b.inflow_eur + tr.amount * fx_rate.rate]
       ELSE paid

\* The <Dividend> and <Transaction> elements of the input file.
BookDates == {1, 2}

BookDividends ==
    [type : {"DIVIDEND"}, currency : Currencies, amount : Amounts, date : BookDates]

BookDeposits ==
    [type : {"TRANSACTION"}, currency : Currencies,
     amount : Amounts \cup {-a : a \in Amounts}, date : BookDates,
     desc : {TransferDesc, "Zinsen"}]

\* ------------------------------------- FetcherOrchestrator (py_datafetcher)
\* Dates are day numbers; the first one is default_start_date.
MaxDay == 3
DefaultStartDate == 1

\* The assets of the command line and the number of providers of the config.
Isins == {"X", "Y"}
NProviders == 2

\* The exit code of a run that has not ended.
Running == -1

\* The data directory is empty, fetch_errors.csv holds its header only.
FetcherInit ==
    [today |-> 1,
     assets |-> EmptyDict,
     fx |-> EmptyDict,
     errors |-> <<>>,
     success_count |-> 0,
     fail_count |-> 0,
     exit_code |-> Running]

\* A start date that fetches the day of the last update again.
GetStartDateSameDay(last_update) == last_update

\* FetcherOrchestrator._get_start_date(last_update_str): the day after it
GetStartDate(last_update) == last_update + 1

\* update_asset, 1.: the start date from the cached asset or from the hint
StartDateOf(f, isin, start_date_hint) ==
    IF isin \in DOMAIN f.assets THEN GetStartDate(f.assets[isin].last_update)
    ELSE IF start_date_hint # 0 THEN start_date_hint
    ELSE DefaultStartDate

\* What a provider does when it is asked for the history from start_date on:
\* it raises, or it returns candles for some of the days start_date..today and
\* then raises or returns on fetch_current_price.
Raises == [raises |-> TRUE, dates |-> {}, close |-> 0, price_raises |-> FALSE]

ProviderAnswers(i, start_date, today) ==
    {Raises} \cup
    [raises : {FALSE}, dates : {{}, start_date..today}, close : {i},
     price_raises : BOOLEAN]

\* The answers of the providers in list order; an answer nobody asks for (the
\* one of a provider behind a successful one) is listed as Raises.
AnswerLists(start_date, today) ==
    {<<a, Raises>> : a \in ProviderAnswers(1, start_date, today) \ {Raises}}
    \cup {<<Raises, b>> : b \in ProviderAnswers(2, start_date, today)}

MaxOf(S) == CHOOSE x \in S : \A y \in S : y <= x

\* try: curr_price = provider.fetch_current_price(ticker)
\* except: the last close of the history, or 0.0
CurrentPrice(answer) ==
    IF ~answer.price_raises THEN answer.close + 10
    ELSE IF answer.dates # {} THEN answer.close
    ELSE 0

\* A provider loop without its break: every provider is asked, the last
\* success counts.
RECURSIVE ProviderLoopAll(_, _, _)
ProviderLoopAll(answers, i, st) ==
    IF i > Len(answers) THEN st
    ELSE ProviderLoopAll(answers, i + 1,
            IF answers[i].raises
            THEN [st EXCEPT !.calls = Append(st.calls, i)]
            ELSE [calls |-> Append(st.calls, i), success |-> TRUE,
                  new_history |-> answers[i], new_price |-> CurrentPrice(answers[i])])

\* update_asset, 3.: for provider in self.providers, from provider i on
RECURSIVE ProviderLoop(_, _, _)
ProviderLoop(answers, i, st) ==
    IF i > Len(answers) THEN st
    ELSE IF answers[i].raises
    THEN ProviderLoop(answers, i + 1, [st EXCEPT !.calls = Append(st.calls, i)])
    ELSE [calls |-> Append(st.calls, i), success |-> TRUE,
          new_history |-> answers[i], new_price |-> CurrentPrice(answers[i])]

\* A logger that drops the record.
LogFailureDropped(errors, has_logger, isin, ticker, reason) == errors

\* ErrorLogger.log_failure(isin, ticker, reason), when a logger was given
LogFailure(errors, has_logger, isin, ticker, reason) ==
    IF has_logger
    THEN Append(errors, [isin |-> isin, ticker |-> ticker, reason |-> reason])
    ELSE errors

\* A merge that replaces the cached history by the candles just fetched.
MergeReplacing(history, new_history) ==
    [d \in new_history.dates |-> [date |-> d, close |-> new_history.close]]

\* for h in new_history: asset.history[h.date] = h
MergeHistory(history, new_history) ==
    [d \in DOMAIN history \cup new_history.dates |->
        IF d \in new_history.dates THEN [date |-> d, close |-> new_history.close]
        ELSE history[d]]

\* update_asset, 4.: the AssetData that is saved
MergedAsset(f, isin, ticker, start_date, loop) ==
    IF isin \notin DOMAIN f.assets
    THEN [isin |-> isin, symbol |-> ticker,
          market_price |-> loop.new_price,
          last_update |-> IF loop.new_history.dates # {}
                          THEN MaxOf(loop.new_history.dates \cup {start_date})
                          ELSE f.today,
          history |-> MergeHistory(EmptyDict, loop.new_history)]
    ELSE LET asset == f.assets[isin]
         IN [asset EXCEPT
               !.market_price = loop.new_price,
               !.history = MergeHistory(asset.history, loop.new_history),
               !.last_update = MaxOf(loop.new_history.dates \cup {asset.last_update})]

\* FetcherOrchestrator.update_asset(isin, ticker, start_date_hint): the files
\* and the log it leaves, what it returns, the providers it called and whether
\* it saved the asset.
UpdateAsset(f, has_logger, isin, ticker, start_date_hint, answers) ==
    LET start_date == StartDateOf(f, isin, start_date_hint)
        loop == ProviderLoop(answers, 1,
                    [calls |-> <<>>, success |-> FALSE,
                     new_history |-> Raises, new_price |-> 0])
    IN IF start_date > f.today
       THEN [f |-> f, result |-> TRUE, calls |-> <<>>, saved |-> FALSE]
       ELSE IF ticker = ""
       THEN [f |-> [f EXCEPT !.errors = LogFailure(f.errors, has_logger, isin,
                                                   "UNKNOWN", "No ticker provided")],
             result |-> FALSE, calls |-> <<>>, saved |-> FALSE]
       ELSE IF ~loop.success
       THEN [f |-> [f EXCEPT !.errors = LogFailure(f.errors, has_logger, isin,
                                                   ticker, "All providers failed")],
             result |-> FALSE, calls |-> loop.calls, saved |-> FALSE]
       ELSE [f |-> [f EXCEPT !.assets =
                        Put(f.assets, isin,
                            MergedAsset(f, isin, ticker, start_date, loop))],
             result |-> TRUE, calls |-> loop.calls, saved |-> TRUE]

\* What a provider does on fetch_fx_history(pair, start_date): it raises, or it
\* returns the rates of some of the days start_date..today.
FxAnswers(i, start_date, today) ==
    {Raises} \cup
    [raises : {FALSE}, dates : {{}, start_date..today}, close : {i},
     price_raises : {FALSE}]

\* The answers in list order; the second provider is asked when the first one
\* raised or returned nothing.
FxAnswerLists(start_date, today) ==
    {<<a, Raises>> : a \in {x \in FxAnswers(1, start_date, today) : x.dates # {}}}
    \cup {<<a, b>> : a \in {x \in FxAnswers(1, start_date, today) : x.dates = {}},
                     b \in FxAnswers(2, start_date, today)}

Pairs == {"USDEUR"}

\* update_fx: for provider in self.providers; an empty answer is no success
RECURSIVE FxLoop(_, _)
FxLoop(answers, i) ==
    IF i > Len(answers) THEN [success |-> FALSE, new_rates |-> Raises]
    ELSE IF ~answers[i].raises /\ answers[i].dates # {}
    THEN [success |-> TRUE, new_rates |-> answers[i]]
    ELSE FxLoop(answers, i + 1)

\* fx_data.history.update(new_rates)
MergeRates(history, new_rates) ==
    [d \in DOMAIN history \cup new_rates.dates |->
        IF d \in new_rates.dates THEN new_rates.close ELSE history[d]]

\* update_fx: the start date from the cached pair or from the hint
FxStartDateOf(f, pair, start_date_hint) ==
    IF pair \in DOMAIN f.fx THEN GetStartDate(f.fx[pair].last_update)
    ELSE IF start_date_hint # 0 THEN start_date_hint
    ELSE DefaultStartDate

\* FetcherOrchestrator.update_fx(pair, start_date_hint)
UpdateFx(f, pair, start_date_hint, answers) ==
    LET start_date == FxStartDateOf(f, pair, start_date_hint)
        loop == FxLoop(answers, 1)
        latest_date == MaxOf(loop.new_rates.dates)
    IN IF start_date > f.today THEN [f |-> f, result |-> TRUE]
       ELSE IF ~loop.success THEN [f |-> f, result |-> FALSE]
       ELSE IF pair \notin DOMAIN f.fx
       THEN [f |-> [f EXCEPT !.fx = Put(f.fx, pair,
                        [pair |-> pair, rate |-> loop.new_rates.close,
                         last_update |-> latest_date,
                         history |-> MergeRates(EmptyDict, loop.new_rates)])],
             result |-> TRUE]
       ELSE LET fx_data == f.fx[pair]
                newer == latest_date > fx_data.last_update
            IN [f |-> [f EXCEPT !.fx = Put(f.fx, pair,
                        [fx_data EXCEPT
                           !.history = MergeRates(fx_data.history, loop.new_rates),
                           !.last_update = IF newer THEN latest_date ELSE @,
                           !.rate = IF newer THEN loop.new_rates.close ELSE @])],
                result |-> TRUE]

\* The arguments of update_asset: the ticker of the command line may be empty,
\* the start date may be missing (0).
AssetArguments ==
    {[isin |-> i, ticker |-> a[1], start_date_hint |-> a[2]] :
        i \in Isins, a \in {<<"T", 0>>, <<"T", 2>>, <<"", 0>>}}

\* ------------------------------ MarketDataManager (py_portfolio_history)
\* MarketDataManager.__init__ over an empty data directory; files maps a file
\* name to the dates of its history and its last_update.
ManagerInit ==
    [files |-> EmptyDict,
     failed_fetches |-> {},
     failed_tickers |-> {},
     logged_warnings |-> {}]

\* The close (or rate) every file stores for the dates it holds.
StoredValue == 3

\* data["history"][query_str], None (0) when the file or the date is missing
Found(m, filename, query_date) ==
    IF filename \in DOMAIN m.files /\ query_date \in m.files[filename].history
    THEN StoredValue ELSE 0

\* 3. On Miss -> Fetch: no fetch for a date the file's last_update covers
ShouldFetch(m, filename, query_date) ==
    /\ Found(m, filename, query_date) = 0
    /\ filename \in DOMAIN m.files => query_date > m.files[filename].last_update

\* _trigger_lazy_fetch: the subprocess fails, or it exits with 0 and has left
\* the file with a last_update of the date asked and with or without a value
\* for it.
FetchOutcomes == [ok : BOOLEAN, has_date : BOOLEAN]

Fetch(m, filename, query_date, outcome) ==
    IF ~outcome.ok THEN m
    ELSE LET old == IF filename \in DOMAIN m.files THEN m.files[filename].history ELSE {}
         IN [m EXCEPT !.files = Put(m.files, filename,
                [history |-> IF outcome.has_date THEN old \cup {query_date} ELSE old,
                 last_update |-> query_date])]

\* A manager that forgets the ticker of a failed fetch.
BlockTickerNever(failed_tickers, ticker) == failed_tickers

\* self.failed_tickers.add(ticker)
BlockTicker(failed_tickers, ticker) == failed_tickers \cup {ticker}

\* MarketDataManager.get_market_price(isin, ticker, query_date): the manager
\* it leaves, the price it returns and whether it started a fetch.
GetMarketPriceCall(m, isin, ticker, query_date, outcome) ==
    LET arg == <<isin, ticker, query_date>>
        fetch == /\ ShouldFetch(m, isin, query_date)
                 /\ ticker \notin m.failed_tickers
                 /\ arg \notin m.failed_fetches
        fetched == Fetch(m, isin, query_date, outcome)
        after == IF ~fetch THEN m
                 ELSE IF outcome.ok THEN fetched
                 ELSE [m EXCEPT !.failed_tickers = BlockTicker(m.failed_tickers, ticker),
                                !.failed_fetches = m.failed_fetches \cup {arg}]
        price_found == Found(after, isin, query_date)
    IN [m |-> IF price_found # 0 THEN after
              ELSE [after EXCEPT !.logged_warnings = @ \cup {<<"PRICE", isin, query_date>>}],
        value |-> price_found,
        fetched |-> fetch]

\* MarketDataManager.get_fx_rate(from_curr, "EUR", query_date)
GetFxRateCall(m, from_curr, query_date, outcome) ==
    LET arg == <<from_curr, query_date>>
        fetch == /\ ShouldFetch(m, from_curr, query_date)
                 /\ arg \notin m.failed_fetches
        after == IF ~fetch THEN m
                 ELSE IF outcome.ok THEN Fetch(m, from_curr, query_date, outcome)
                 ELSE [m EXCEPT !.failed_fetches = m.failed_fetches \cup {arg}]
        rate_found == Found(after, from_curr, query_date)
    IN IF from_curr = "EUR"
       THEN [m |-> m, value |-> 1, fetched |-> FALSE]
       ELSE [m |-> IF rate_found # 0 THEN after
                   ELSE [after EXCEPT !.logged_warnings = @ \cup {<<"FX", from_curr, query_date>>}],
             value |-> IF rate_found # 0 THEN rate_found ELSE 1,
             fetched |-> fetch]

\* The lookups of a replay: one instrument quoted under two tickers, two dates.
Tickers == {"T", "U"}
QueryDates == {1, 2}

\* ------------------------------------------------ csv_parser (py_csv_parser)
\* main without a trades.xml: existing_ids = set(), and update_xml starts from
\* a TradeLog with its three empty nodes.
XmlInit == [Trades |-> <<>>, Dividends |-> <<>>, DepositsWithdrawals |-> <<>>]

SECTION_TRADES == "Transaktionen"
SECTION_DIVIDENDS == "Dividenden"
SECTION_DEPOSITS == "Einzahlungen & Auszahlungen"

\* ticker_map.json, and ticker_map.get(sym, sym)
TickerMap == [OLD |-> "A"]
TickerMapGet(sym) == IF sym \in DOMAIN TickerMap THEN TickerMap[sym] ELSE sym

\* generate_hash(data_string): the MD5 digest, taken as free of collisions
generate_hash(data_string) == <<"md5", data_string>>

\* load_existing_ids(root): the id of every element of the file that has one
load_existing_ids(root) ==
    {root.Trades[i].id : i \in DOMAIN root.Trades}
        \cup {root.Dividends[i].id : i \in DOMAIN root.Dividends}
        \cup {root.DepositsWithdrawals[i].id : i \in DOMAIN root.DepositsWithdrawals}

\* extract_symbol_from_desc(desc): the text before the first "("; a description
\* is kept as the pair of that text and the rest.
extract_symbol_from_desc(desc) == desc[1]
DescText(desc) == desc[1] \o desc[2]

\* A parser that forgets the ids of the rows it has added.
AddIdNever(existing_ids, id) == existing_ids

\* existing_ids.add(trade_id)
AddId(existing_ids, id) == existing_ids \cup {id}

\* The id and the record process_csv makes of one Data row of a section.
RowRecord(row) ==
    CASE row.section = SECTION_TRADES ->
            LET sym == TickerMapGet(row.symbol)
            IN [id |-> generate_hash(row.date \o sym \o row.qty \o row.proceeds
                                        \o row.commission),
                symbol |-> sym, desc |-> ""]
      [] row.section = SECTION_DIVIDENDS ->
            LET sym == TickerMapGet(extract_symbol_from_desc(row.desc))
            IN [id |-> generate_hash(row.date \o sym \o row.amount \o DescText(row.desc)),
                symbol |-> sym, desc |-> DescText(row.desc)]
      [] OTHER ->
            [id |-> generate_hash(row.date \o DescText(row.desc) \o row.amount),
             symbol |-> "", desc |-> DescText(row.desc)]

\* One Data row of PASS 2: a total row ("Gesamt") of the dividends or deposits
\* is passed over, a row whose id is known is passed over, a row of a section
\* whose header has no currency column ends in the KeyError that is caught.
ProcessRow(acc, row) ==
    LET rec == RowRecord(row)
        added == AddId(acc.existing_ids, rec.id)
    IN IF row.section # SECTION_TRADES /\ row.gesamt THEN acc
       ELSE IF rec.id \in acc.existing_ids THEN acc
       ELSE IF ~row.has_currency THEN acc
       ELSE CASE row.section = SECTION_TRADES ->
                    [acc EXCEPT !.new_trades = Append(@, rec), !.existing_ids = added]
              [] row.section = SECTION_DIVIDENDS ->
                    [acc EXCEPT !.new_divs = Append(@, rec), !.existing_ids = added]
              [] OTHER ->
                    [acc EXCEPT !.new_deposits = Append(@, rec), !.existing_ids = added]

RECURSIVE ProcessRows(_, _, _)
ProcessRows(rows, i, acc) ==
    IF i > Len(rows) THEN acc
    ELSE ProcessRows(rows, i + 1, ProcessRow(acc, rows[i]))

\* process_csv(filepath, existing_ids, ticker_map), PASS 2
process_csv(rows, existing_ids) ==
    ProcessRows(rows, 1, [existing_ids |-> existing_ids, new_trades |-> <<>>,
                          new_divs |-> <<>>, new_deposits |-> <<>>])

\* update_xml: the new records are appended to the three nodes of trades.xml
update_xml(root, r) ==
    [Trades |-> root.Trades \o r.new_trades,
     Dividends |-> root.Dividends \o r.new_divs,
     DepositsWithdrawals |-> root.DepositsWithdrawals \o r.new_deposits]

\* The Data rows of the broker's files, each with the section its header opened.
CsvRow(section, symbol, qty, desc, amount, has_currency, gesamt) ==
    [section |-> section, date |-> "2024-01-02", symbol |-> symbol, qty |-> qty,
     proceeds |-> "-50", commission |-> "-1", desc |-> desc, amount |-> amount,
     has_currency |-> has_currency, gesamt |-> gesamt]

TradeA == CsvRow(SECTION_TRADES, "A", "5", <<"", "">>, "", TRUE, FALSE)
TradeOld == CsvRow(SECTION_TRADES, "OLD", "5", <<"", "">>, "", TRUE, FALSE)
TradeB == CsvRow(SECTION_TRADES, "B", "5", <<"", "">>, "", FALSE, FALSE)
DivA == CsvRow(SECTION_DIVIDENDS, "", "", <<"A", "(US1) Dividende">>, "3", TRUE, FALSE)
DivTotal == CsvRow(SECTION_DIVIDENDS, "", "", <<"Gesamt", "">>, "3", TRUE, TRUE)
DepositA == CsvRow(SECTION_DEPOSITS, "", "", <<"Einzahlung", "">>, "100", TRUE, FALSE)

CsvFiles ==
    {<<TradeA, DivA>>,
     <<TradeA, TradeOld, DepositA>>,
     <<TradeB, DivA, DivTotal, DivA>>,
     <<DepositA, TradeOld>>}

\* The market data provider during one call.
MarketAnswers == [files : {market}, fx : {StoredFxRate(market)}]

\* ---------------------------------------------------------------- actions
Init ==
    /\ program \in Programs
    /\ market \in CASE program = "calculator" -> Markets
                    [] program = "snapshot" -> {"none", "flat"}
                    [] OTHER -> {"none"}
    /\ clock = 0
    /\ last = NoEvent
    /\ raised = "none"
    /\ calc = CalcInit
    /\ snap_args = NoSnapshot
    /\ snapshots = <<>>
    /\ fifo = FifoInit
    /\ state = CASE program = "legacy" -> LegacyInit
                  [] program = "snapshot" -> BookInit
                  [] program \in {"fetcher", "datafetcher"} -> FetcherInit
                  [] program = "market_data" -> ManagerInit
                  [] program = "csv_parser" -> XmlInit
                  [] OTHER -> StateInit
    /\ processed = NoEvent
    /\ prior = CASE program = "calculator" -> CalcInit
                  [] program = "fifo_engine" -> FifoInit
                  [] program = "portfolio" -> StateInit
                  [] program = "snapshot" -> BookInit
                  [] program \in {"fetcher", "datafetcher"} -> FetcherInit
                  [] program = "market_data" -> ManagerInit
                  [] program = "csv_parser" -> XmlInit
                  [] OTHER -> LegacyInit

\* process_transaction(t) to its end: the handler's state change, then
\* _create_snapshot, whose PortfolioSnapshot(...) call raises.
Finish(c, t) ==
    \E md \in MarketAnswers :
        LET r == CreateSnapshot(c, t.date, md)
        IN /\ calc' = r.calc
           /\ snap_args' = r.args
           /\ raised' = IF ConstructorRaises THEN "TypeError" ELSE "none"
           /\ snapshots' = IF ConstructorRaises THEN snapshots
                           ELSE Append(snapshots, r.args)
           /\ last' = t
           /\ prior' = calc
           /\ clock' = clock + 1
           /\ UNCHANGED <<program, market, state, processed>>

\* A trade of the timeline of main: FifoEngine.process_trade(event), then the
\* calculator's handler for it; cash and dividend events go to the calculator
\* alone.
ProcessTrade ==
    /\ program = "calculator"
    /\ clock < MaxEvents
    /\ \E e \in TradeInputs :
          /\ fifo' = FifoProcessTrade(fifo, Stamp(e))
          /\ Finish(ProcessTradeState(calc, Stamp(e)), Stamp(e))

ProcessCash ==
    /\ program = "calculator"
    /\ clock < MaxEvents
    /\ \E e \in CashInputs : Finish(ProcessCashState(calc, Stamp(e)), Stamp(e))
    /\ UNCHANGED fifo

ProcessDividend ==
    /\ program = "calculator"
    /\ clock < MaxEvents
    /\ \E e \in DividendInputs : Finish(ProcessDividendState(calc, Stamp(e)), Stamp(e))
    /\ UNCHANGED fifo

\* process_transaction, else branch: a warning, then _create_snapshot(t.date).
ProcessUnknown ==
    /\ program = "calculator"
    /\ clock < MaxEvents
    /\ \E e \in UnknownInputs : Finish(calc, Stamp(e))
    /\ UNCHANGED fifo

\* FifoEngine.process_trade(trade)
FifoTrade ==
    /\ program = "fifo_engine"
    /\ clock < MaxEvents
    /\ \E e \in TradeInputs :
          /\ fifo' = FifoProcessTrade(fifo, Stamp(e))
          /\ last' = Stamp(e)
          /\ prior' = fifo
    /\ clock' = clock + 1
    /\ UNCHANGED <<program, market, raised, calc, snap_args, snapshots, state, processed>>

\* TradeProcessor.process_event(raw) of py_portfolio: the handler, then
\* _generate_snapshot on the state it left.
Handled(st, raw) ==
    /\ state' = st
    /\ processed' = GenerateSnapshot(st, raw)
    /\ snapshots' = Append(snapshots, GenerateSnapshot(st, raw))
    /\ last' = raw
    /\ prior' = state
    /\ clock' = clock + 1
    /\ UNCHANGED <<program, market, raised, calc, snap_args, fifo>>

PortfolioTrade ==
    /\ program = "portfolio"
    /\ clock < MaxEvents
    /\ \E e \in RawTrades : Handled(TradeState(state, Stamp(e)), Stamp(e))

PortfolioTransfer ==
    /\ program = "portfolio"
    /\ clock < MaxEvents
    /\ \E e \in RawTransfers : Handled(TransferState(state, Stamp(e)), Stamp(e))

PortfolioDividend ==
    /\ program = "portfolio"
    /\ clock < MaxEvents
    /\ \E e \in RawDividends : Handled(DividendState(state, Stamp(e)), Stamp(e))

\* process_event, else branch: every other kind goes to _process_transfer.
PortfolioUnknown ==
    /\ program = "portfolio"
    /\ clock < MaxEvents
    /\ \E e \in RawUnknown : Handled(TransferState(state, Stamp(e)), Stamp(e))

\* TradeProcessor.process_event(raw) of trade_logic.py: the handler, then
\* _update_metrics.
Measured(st, raw, equity_change) ==
    LET r == UpdateMetrics(st, raw, equity_change)
    IN /\ state' = r.state
       /\ processed' = r.processed
       /\ last' = raw
       /\ prior' = state
       /\ clock' = clock + 1
       /\ UNCHANGED <<program, market, raised, calc, snap_args, snapshots, fifo>>

LegacyTrade ==
    /\ program = "legacy"
    /\ clock < MaxEvents
    /\ \E e \in RawTrades :
          LET r == LegacyTradeState(state, Stamp(e))
          IN Measured(r.state, Stamp(e), r.pnl)

LegacyTransfer ==
    /\ program = "legacy"
    /\ clock < MaxEvents
    /\ \E e \in RawTransfers :
          Measured(LegacyTransferState(state, Stamp(e)), Stamp(e), e.amount)

LegacyDividend ==
    /\ program = "legacy"
    /\ clock < MaxEvents
    /\ \E e \in RawDividends :
          Measured(LegacyDividendState(state, Stamp(e)), Stamp(e), e.amount)

\* main of portfolio.py hands every <Dividend> to process_dividend, then every
\* <Transaction> to process_deposit.
Booked(b, e) ==
    /\ state' = b
    /\ last' = e @@ [id |-> clock + 1]
    /\ prior' = state
    /\ clock' = clock + 1
    /\ UNCHANGED <<program, market, raised, calc, snap_args, snapshots, fifo, processed>>

BookDividend ==
    /\ program = "snapshot"
    /\ clock < MaxEvents
    /\ last.type # "TRANSACTION"
    /\ \E e \in BookDividends : Booked(BookDividendState(state, e), e)

BookDeposit ==
    /\ program = "snapshot"
    /\ clock < MaxEvents
    /\ \E e \in BookDeposits : Booked(BookDepositState(state, e), e)

\* One call of update_asset on an orchestrator that was given an ErrorLogger.
Fetched(has_logger, a) ==
    \E answers \in AnswerLists(StartDateOf(state, a.isin, a.start_date_hint),
                                state.today) :
        LET r == UpdateAsset(state, has_logger, a.isin, a.ticker,
                             a.start_date_hint, answers)
        IN /\ state' = [r.f EXCEPT
                          !.success_count = IF r.result THEN @ + 1 ELSE @,
                          !.fail_count = IF r.result THEN @ ELSE @ + 1]
           /\ processed' = [type |-> "ASSET", result |-> r.result,
                            calls |-> r.calls, saved |-> r.saved]
           /\ last' = [type |-> "ASSET", isin |-> a.isin, ticker |-> a.ticker,
                       start_date_hint |-> a.start_date_hint, answers |-> answers,
                       id |-> clock + 1]
           /\ prior' = state
           /\ clock' = clock + 1
           /\ UNCHANGED <<program, market, raised, calc, snap_args, snapshots, fifo>>

FetcherUpdateAsset ==
    /\ program = "fetcher"
    /\ clock < MaxEvents
    /\ \E a \in AssetArguments : Fetched(TRUE, a)

\* The calendar moves on between two updates.
FetcherNextDay ==
    /\ program = "fetcher"
    /\ clock < MaxEvents
    /\ state.today < MaxDay
    /\ state' = [state EXCEPT !.today = @ + 1]
    /\ processed' = NoEvent
    /\ last' = [type |-> "DAY", id |-> clock + 1]
    /\ prior' = state
    /\ clock' = clock + 1
    /\ UNCHANGED <<program, market, raised, calc, snap_args, snapshots, fifo>>

\* main of datafetcher.py, 2.: update_asset for the next asset of --assets; the
\* orchestrator of main is built without an ErrorLogger.
MainUpdateAsset ==
    /\ program = "datafetcher"
    /\ clock < MaxEvents
    /\ state.exit_code = Running
    /\ last.type # "FX"
    /\ \E a \in AssetArguments : Fetched(FALSE, a)

\* main, 3.: update_fx for the next pair of --fx
MainUpdateFx ==
    /\ program = "datafetcher"
    /\ clock < MaxEvents
    /\ state.exit_code = Running
    /\ \E pair \in Pairs, hint \in {0, 1} :
         \E answers \in FxAnswerLists(FxStartDateOf(state, pair, hint), state.today) :
            LET r == UpdateFx(state, pair, hint, answers)
            IN /\ state' = [r.f EXCEPT
                              !.success_count = IF r.result THEN @ + 1 ELSE @,
                              !.fail_count = IF r.result THEN @ ELSE @ + 1]
               /\ processed' = [type |-> "FX", result |-> r.result,
                                calls |-> <<>>, saved |-> r.result]
               /\ last' = [type |-> "FX", pair |-> pair, start_date_hint |-> hint,
                           answers |-> answers, id |-> clock + 1]
    /\ prior' = state
    /\ clock' = clock + 1
    /\ UNCHANGED <<program, market, raised, calc, snap_args, snapshots, fifo>>

\* main, end: sys.exit(1) if fail_count > 0, else sys.exit(0)
MainExit ==
    /\ program = "datafetcher"
    /\ state.exit_code = Running
    /\ state' = [state EXCEPT !.exit_code = IF state.fail_count > 0 THEN 1 ELSE 0]
    /\ UNCHANGED <<program, market, clock, last, raised, calc, snap_args,
                   snapshots, fifo, processed, prior>>

\* One lookup of the calculator at the manager.
Answered(r, call) ==
    /\ state' = r.m
    /\ processed' = [type |-> call.type, value |-> r.value, fetched |-> r.fetched]
    /\ last' = call @@ [id |-> clock + 1]
    /\ prior' = state
    /\ clock' = clock + 1
    /\ UNCHANGED <<program, market, raised, calc, snap_args, snapshots, fifo>>

ManagerGetPrice ==
    /\ program = "market_data"
    /\ clock < MaxEvents
    /\ \E ticker \in Tickers, d \in QueryDates, outcome \in FetchOutcomes :
          Answered(GetMarketPriceCall(state, "X", ticker, d, outcome),
                   [type |-> "PRICE", name |-> ticker, date |-> d, outcome |-> outcome])

ManagerGetRate ==
    /\ program = "market_data"
    /\ clock < MaxEvents
    /\ \E from_curr \in Currencies, d \in QueryDates, outcome \in FetchOutcomes :
          Answered(GetFxRateCall(state, from_curr, d, outcome),
                   [type |-> "RATE", name |-> from_curr, date |-> d, outcome |-> outcome])

\* main of csv_parser: the ids of trades.xml are loaded, the file is parsed
\* and, when it held something new, trades.xml is written.
ImportCsv ==
    /\ program = "csv_parser"
    /\ clock < MaxEvents
    /\ \E rows \in CsvFiles :
          LET r == process_csv(rows, load_existing_ids(state))
          IN /\ state' = IF r.new_trades # <<>> \/ r.new_divs # <<>> \/ r.new_deposits # <<>>
                         THEN update_xml(state, r) ELSE state
             /\ processed' = [type |-> "CSV", new_trades |-> r.new_trades,
                              new_divs |-> r.new_divs, new_deposits |-> r.new_deposits]
             /\ last' = [type |-> "CSV", rows |-> rows, id |-> clock + 1]
    /\ prior' = state
    /\ clock' = clock + 1
    /\ UNCHANGED <<program, market, raised, calc, snap_args, snapshots, fifo>>

Next ==
    \/ ProcessTrade
    \/ ProcessCash
    \/ ProcessDividend
    \/ ProcessUnknown
    \/ FifoTrade
    \/ PortfolioTrade
    \/ PortfolioTransfer
    \/ PortfolioDividend
    \/ PortfolioUnknown
    \/ LegacyTrade
    \/ LegacyTransfer
    \/ LegacyDividend
    \/ BookDividend
    \/ BookDeposit
    \/ FetcherUpdateAsset
    \/ FetcherNextDay
    \/ MainUpdateAsset
    \/ MainUpdateFx
    \/ MainExit
    \/ ManagerGetPrice
    \/ ManagerGetRate
    \/ ImportCsv

Spec == Init /\ [][Next]_vars

\* ---------------------------------------------------------------- properties
\* The lots and the quantity PortfolioCalculator holds for a symbol; a symbol
\* without a Position object holds nothing.
CalcTranches(c, s) ==
    IF s \in DOMAIN c.open_positions THEN c.open_positions[s].tranches ELSE <<>>

\* The sum of the quantities of a list of tranches.
TotalQty(tranches) == SumSeq([i \in 1..Len(tranches) |-> tranches[i].quantity])

CalcQuantity(c, s) ==
    IF s \in DOMAIN c.open_positions THEN c.open_positions[s].quantity ELSE 0

\* The ledger entries the step appended.
NewClosed == SubSeq(calc'.closed_trades, Len(calc.closed_trades) + 1,
                    Len(calc'.closed_trades))

\* The ledger entries of the trade with the given id, and the quantity they closed.
ClosedBy(c, id) == SelectSeq(c.closed_trades, LAMBDA x : x.exit_id = id)

MatchedBy(c, id) ==
    LET by == ClosedBy(c, id)
    IN SumSeq([i \in 1..Len(by) |-> by[i].quantity])

\* C1: in PortfolioCalculator, after every BUY and every SELL (a SELL larger
\* than the position included), the quantity of each position equals the sum
\* of the quantities of its tranches.
C1_QuantityIsSumOfTranches ==
    program = "calculator" =>
        \A s \in Symbols :
            CalcQuantity(calc, s) = TotalQty(CalcTranches(calc, s))

\* A SELL larger than the position has just been matched against its lots.
C1_Witness ==
    /\ program = "calculator"
    /\ last.type = "SELL"
    /\ MatchedBy(calc, last.id) > 0
    /\ MatchedBy(calc, last.id) < last.quantity

\* C2: a closing SELL of PortfolioCalculator is matched strictly last-in
\* first-out: the ledger entries it appends close the newest tranche first, each
\* at the entry price of the tranche it closes, every tranche but the last one
\* matched is closed whole, and the older tranches stay as they were.
C2_SellIsLifo ==
    [][ (program = "calculator" /\ last'.type = "SELL") =>
          LET T == CalcTranches(calc, last'.symbol)
              T2 == CalcTranches(calc', last'.symbol)
              n == Len(NewClosed)
          IN /\ n <= Len(T)
             /\ Len(T2) >= Len(T) - n
             /\ \A j \in 1..n :
                   LET tr == T[Len(T) + 1 - j]
                   IN /\ NewClosed[j].entry_id = tr.id
                      /\ NewClosed[j].gross_pnl =
                            ConvertToEur((last'.price - tr.price) * NewClosed[j].quantity,
                                         last')
                      /\ (j < n => NewClosed[j].quantity = tr.quantity)
             /\ \A i \in 1..(Len(T) - n) : T2[i] = T[i]
      ]_vars

\* Two buys at different prices, then a SELL of exactly the second buy: the
\* ledger holds one entry, closing trade 2, and the first tranche is still open.
C2_Witness ==
    /\ program = "calculator"
    /\ last.type = "SELL"
    /\ Len(calc.closed_trades) = 1
    /\ calc.closed_trades[1].entry_id = 2
    /\ calc.closed_trades[1].quantity = last.quantity
    /\ Len(CalcTranches(calc, last.symbol)) = 1
    /\ CalcTranches(calc, last.symbol)[1].id = 1
    /\ CalcTranches(calc, last.symbol)[1].price # calc.closed_trades[1].entry_price

\* C3: a SELL larger than the open long position closes the lots and opens
\* exactly one new lot for the remainder, on the trade's side, at the trade's
\* price.
C3_FlipOpensRemainder ==
    [][ (/\ program = "calculator"
         /\ last'.type = "SELL"
         /\ CalcQuantity(calc, last'.symbol) > 0
         /\ last'.quantity > CalcQuantity(calc, last'.symbol)) =>
          LET T2 == CalcTranches(calc', last'.symbol)
          IN /\ Len(T2) = 1
             /\ Abs(T2[1].quantity) = last'.quantity - CalcQuantity(calc, last'.symbol)
             /\ T2[1].price = last'.price
             /\ T2[1].id = last'.id
      ]_vars

\* C4: a SELL of an instrument without open lots opens a short lot of the
\* sold quantity at the trade's price.
C4_SellOpensShort ==
    [][ (/\ program = "calculator"
         /\ last'.type = "SELL"
         /\ last'.quantity > 0
         /\ CalcTranches(calc, last'.symbol) = <<>>) =>
          LET T2 == CalcTranches(calc', last'.symbol)
          IN /\ Len(T2) = 1
             /\ Abs(T2[1].quantity) = last'.quantity
             /\ T2[1].price = last'.price
      ]_vars

\* C5: a SELL credits cash with the proceeds of its closing part only, less
\* the fees; the proceeds of the part that opens a short never reach cash.
C5_ShortProceedsNotInCash ==
    [][ (program = "calculator" /\ last'.type = "SELL") =>
          calc'.cash_balance_eur - calc.cash_balance_eur =
              last'.price * Min(last'.quantity, CalcQuantity(calc, last'.symbol))
              - last'.commission
      ]_vars

\* C6: every snapshot carries the collateral balance, and its total_equity is
\* cash + collateral + the market values of the open positions.
C6_EquityCountsCollateral ==
    (program = "calculator" /\ snap_args.built) =>
        /\ "collateral" \in SnapshotKeywords
        /\ snap_args.total_equity =
              snap_args.cash + snap_args.collateral + snap_args.market_value_total

\* C7: in both TradeProcessors the open lots of one instrument never include
\* two lots of opposite sign.
C7_LotsShareSign ==
    program \in {"portfolio", "legacy"} =>
        \A s \in DOMAIN state.open_positions :
            LET L == state.open_positions[s]
            IN ~ \E i, j \in 1..Len(L) : L[i].qty > 0 /\ L[j].qty < 0

\* No tranche of PortfolioCalculator and no queue entry of FifoEngine has
\* quantity zero.
NoZeroLot ==
    /\ \A s \in DOMAIN calc.open_positions :
          \A i \in 1..Len(calc.open_positions[s].tranches) :
              calc.open_positions[s].tranches[i].quantity # 0
    /\ \A s \in DOMAIN fifo.open_tranches :
          \A i \in 1..Len(fifo.open_tranches[s]) :
              fifo.open_tranches[s][i].quantity # 0

\* lot2 is lot after a partial match: the same lot, a smaller positive
\* quantity, and the commission less its pro-rata part for the matched units.
Reduced(lot, lot2) ==
    /\ lot2.id = lot.id
    /\ lot2.price = lot.price
    /\ lot2.quantity > 0
    /\ lot2.quantity < lot.quantity
    /\ (lot.commission - lot2.commission) * lot.quantity =
          lot.commission * (lot.quantity - lot2.quantity)

FifoQueue(f, s) ==
    IF s \in DOMAIN f.open_tranches THEN f.open_tranches[s] ELSE <<>>

\* C8: no lot with zero quantity is ever left in a queue; a SELL leaves the
\* lots it did not reach as they were, and a lot it matched in part stays at
\* the matching end (the newest tranche of PortfolioCalculator, the front of
\* FifoEngine's queue) with quantity and commission reduced by the matched part.
C8_NoZeroLotPartialStays ==
    /\ NoZeroLot
    /\ [][NoZeroLot']_vars
    /\ [][ (program = "calculator" /\ last'.type = "SELL") =>
             LET T == CalcTranches(calc, last'.symbol)
                 T2 == CalcTranches(calc', last'.symbol)
                 k == Len(T2)
             IN /\ k <= Len(T)
                /\ \A i \in 1..(k - 1) : T2[i] = T[i]
                /\ k > 0 => (T2[k] = T[k] \/ (Reduced(T[k], T2[k]) /\ k = Len(T) + 1 - Len(NewClosed)))
       ]_vars
    /\ [][ (program = "fifo_engine" /\ last'.type = "SELL") =>
             LET Q == FifoQueue(fifo, last'.symbol)
                 Q2 == FifoQueue(fifo', last'.symbol)
                 d == Len(Q) - Len(Q2)
             IN /\ d >= 0
                /\ \A i \in 2..Len(Q2) : Q2[i] = Q[i + d]
                /\ Len(Q2) > 0 => (Q2[1] = Q[1 + d] \/ Reduced(Q[1 + d], Q2[1]))
       ]_vars

\* A SELL has closed half of the newest tranche of a position: the tranche is
\* still the last one, with one unit and half of its commission left.
C8_Witness ==
    /\ program = "calculator"
    /\ last.type = "SELL"
    /\ MatchedBy(calc, last.id) = last.quantity
    /\ LET T == CalcTranches(calc, last.symbol)
       IN /\ Len(T) = 2
          /\ T[2].quantity = 1
          /\ T[2].commission = 3
          /\ calc.closed_trades[Len(calc.closed_trades)].entry_id = T[2].id

\* C9: the high-water mark never decreases: after every event it is the
\* larger of its value before and the adjusted equity (total equity less net
\* inflows) after the event, in PortfolioCalculator and in the TradeProcessor of
\* trade_logic.py.
C9_HighWaterMarkIsRunningMax ==
    [][ /\ program = "calculator" =>
             /\ calc'.high_water_mark >= calc.high_water_mark
             /\ calc'.high_water_mark =
                   Max(calc.high_water_mark,
                       snap_args'.total_equity - snap_args'.inflows)
        /\ program = "legacy" =>
             /\ state'.adjusted_equity_high_watermark >=
                   state.adjusted_equity_high_watermark
             /\ state'.adjusted_equity_high_watermark =
                   Max(state.adjusted_equity_high_watermark,
                       state'.total_equity - state'.cum_inflow)
      ]_vars

\* The adjusted equity has fallen below a positive high-water mark, which
\* stayed where it was.
C9_Witness ==
    /\ program = "calculator"
    /\ snap_args.built
    /\ calc.high_water_mark > 0
    /\ snap_args.total_equity - snap_args.inflows < calc.high_water_mark

\* C10: the drawdown of a snapshot is (hwm - adjusted equity) / hwm * 100 when
\* the high-water mark is positive and 0 otherwise, so a portfolio that only
\* lost money since inception reports 0.
C10_DrawdownFormula ==
    (program = "calculator" /\ snap_args.built) =>
        LET hwm == calc.high_water_mark
            adj == snap_args.total_equity - snap_args.inflows
            dd == snap_args.drawdown
        IN /\ dd.den > 0
           /\ IF hwm > 0
              THEN dd.num * hwm = (hwm - adj) * 100 * dd.den
              ELSE dd.num = 0

\* A deposit, a buy and a sale at a loss: the adjusted equity is negative,
\* the high-water mark is still 0 and the drawdown is 0.
C10_Witness ==
    /\ program = "calculator"
    /\ snap_args.built
    /\ last.type = "SELL"
    /\ calc.inflows_total > 0
    /\ Len(calc.closed_trades) = 1
    /\ calc.closed_trades[1].gross_pnl < 0
    /\ snap_args.total_equity - snap_args.inflows < 0
    /\ calc.high_water_mark = 0
    /\ snap_args.drawdown.num = 0

\* The adjusted equity (equity less cumulative inflows) of a snapshot; an
\* empty portfolio has none.
AdjustedEquity(args) == IF args.built THEN args.total_equity - args.inflows ELSE 0

\* The drawdown a snapshot reports; nothing is drawn down before the first one.
ReportedDrawdown(args) == IF args.built THEN args.drawdown ELSE Drawdown(0, 0)

\* The step leaves the price of every open position as the previous snapshot
\* valued it.
PricesUnchanged ==
    /\ DOMAIN calc'.open_positions = DOMAIN calc.open_positions
    /\ \A s \in DOMAIN calc.open_positions :
          /\ calc'.open_positions[s].current_price = calc.open_positions[s].current_price
          /\ calc'.open_positions[s].exchange_rate = calc.open_positions[s].exchange_rate

IsCash(e) == e.type \in {"DEPOSIT", "WITHDRAWAL"}

\* C11: a DEPOSIT or WITHDRAWAL of PortfolioCalculator that finds the market
\* prices unchanged leaves adjusted equity, high-water mark and drawdown as they
\* were before it.
C11_CashLeavesDrawdownMeasure ==
    [][ (program = "calculator" /\ IsCash(last') /\ PricesUnchanged) =>
          /\ AdjustedEquity(snap_args') = AdjustedEquity(snap_args)
          /\ calc'.high_water_mark = calc.high_water_mark
          /\ ReportedDrawdown(snap_args') = ReportedDrawdown(snap_args) ]_vars

\* A cash movement was processed while a position is held at an unchanged
\* positive price, below a positive high-water mark.
C11_Witness ==
    /\ program = "calculator"
    /\ market = "flat"
    /\ IsCash(last)
    /\ snap_args.built
    /\ snap_args.market_value_total > 0
    /\ calc.high_water_mark > 0
    /\ snap_args.drawdown.num > 0

\* C12: after N events PortfolioCalculator has returned N snapshots, one per
\* event, and building none of them has failed.
C12_OneSnapshotPerEvent ==
    program = "calculator" =>
        /\ raised = "none"
        /\ Len(snapshots) = clock

\* What a reader of the field finds when the state holds the object live.
Deref(field, live) == IF field.shared THEN live ELSE field.value

\* The positions the portfolio state holds live.
LivePositions ==
    IF program = "calculator" THEN calc.open_positions ELSE state.open_positions

\* A snapshot as its reader finds it while the state holds the positions live.
SnapshotView(snap, live) == [snap EXCEPT !.positions = Deref(snap.positions, live)]

HandlerState(c, t) ==
    IF t.type \in {"BUY", "SELL"} THEN ProcessTradeState(c, t)
    ELSE IF IsCash(t) THEN ProcessCashState(c, t)
    ELSE IF t.type = "DIVIDEND" THEN ProcessDividendState(c, t)
    ELSE c

\* C14: building the snapshot is a pure read: the state PortfolioCalculator is
\* left in by an event is the state its handler produced before it called the
\* snapshot builder (cash, inflows, high-water mark, positions with their
\* tranches and valuation fields, closed-trade ledger).
C14_BuilderIsPureRead ==
    [][ program = "calculator" => calc' = HandlerState(calc, last') ]_vars

\* What the snapshot builder computes when it is called again, for the same
\* timestamp and with the same market data, on the state its first call left.
BuiltAgain(md) == CreateSnapshot(calc, last.date, md).args

\* C15: the snapshot builder of PortfolioCalculator is idempotent: called a
\* second time for the same timestamp on the state the first call left, with no
\* event in between, it computes a snapshot equal to the first in every field
\* (cash, equity, drawdown, metrics, positions).
C15_BuilderIsIdempotent ==
    (program = "calculator" /\ snap_args.built) =>
        \A md \in MarketAnswers : BuiltAgain(md) = snap_args

\* A snapshot was built for a state with an open position of positive value,
\* a closed trade and a drawdown below a positive high-water mark.
C15_Witness ==
    /\ program = "calculator"
    /\ snap_args.built
    /\ snap_args.market_value_total > 0
    /\ snap_args.performance.closed_trades_count > 0
    /\ calc.high_water_mark > 0
    /\ snap_args.drawdown.num > 0

\* What the market data provider answers in this replay.
TheMarket == [files |-> market, fx |-> StoredFxRate(market)]

\* TradeProcessor.process_event's dispatch (py_portfolio): the state the
\* handler of the event leaves.
EventState(st, raw) ==
    IF raw.type \in {"BUY", "SELL"} THEN TradeState(st, raw)
    ELSE IF raw.type = "DIVIDEND" THEN DividendState(st, raw)
    ELSE TransferState(st, raw)

\* TradeProcessor.process_event's dispatch (trade_logic.py): the handler, then
\* _update_metrics.
LegacyEvent(st, raw) ==
    IF raw.type \in {"BUY", "SELL"}
    THEN UpdateMetrics(LegacyTradeState(st, raw).state, raw,
                       LegacyTradeState(st, raw).pnl)
    ELSE IF raw.type = "DIVIDEND"
    THEN UpdateMetrics(LegacyDividendState(st, raw), raw, raw.amount)
    ELSE UpdateMetrics(LegacyTransferState(st, raw), raw, raw.amount)

\* A second PortfolioCalculator, brought by the same events to the state the
\* first was in before its last event, is fed that event afterwards, with the
\* same market data answers.
CalcAgain == CreateSnapshot(HandlerState(prior, last), last.date, TheMarket)

FeesAreCost(closed_trades) ==
    \A i \in 1..Len(closed_trades) :
        /\ closed_trades[i].real_pnl =
               closed_trades[i].gross_pnl - closed_trades[i].fees
        /\ closed_trades[i].real_pnl <= closed_trades[i].gross_pnl

\* C17: for every ClosedTrade, of PortfolioCalculator and of FifoEngine,
\* real_pnl = gross_pnl - (entry-fee portion + exit-fee portion), the commission
\* the parser delivers being a cost, so real_pnl is never above gross_pnl.
C17_RealIsGrossLessFees ==
    /\ FeesAreCost(calc.closed_trades)
    /\ FeesAreCost(fifo.closed_trades)

\* The commission the lot bought by the given trade still carries.
CommissionLeft(lots, id) ==
    SumSeq([i \in 1..Len(lots) |-> IF lots[i].id = id THEN lots[i].commission ELSE 0])

\* The entry-fee portion a step charged for the lot: the commission it lost.
EntryPortion(before, after, id) ==
    CommissionLeft(before, id) - CommissionLeft(after, id)

\* The ledger entries FifoEngine appended in the step.
NewClosedFifo == SubSeq(fifo'.closed_trades, Len(fifo.closed_trades) + 1,
                        Len(fifo'.closed_trades))

EntryValue(c) ==
    SumSet([sym \in DOMAIN c.open_positions |->
               TotalCost(c.open_positions[sym].tranches)])

\* C19: in every snapshot of PortfolioCalculator the open positions are valued
\* at their entry prices, whatever the market data provider returns:
\* market_value_total is the sum of quantity * average entry price, and the
\* equity is cash plus that sum.
C19_ValuedAtEntryPrice ==
    (program = "calculator" /\ snap_args.built) =>
        /\ snap_args.market_value_total = EntryValue(calc)
        /\ snap_args.total_equity = snap_args.cash + EntryValue(calc)

\* The snapshot of the last event had get_fx_rate answered 1.0 for it, all
\* else equal.
AtPar ==
    CreateSnapshot(HandlerState(prior, [last EXCEPT !.fx = 1]), last.date,
                   [TheMarket EXCEPT !.fx = 1]).args

\* C20: FX rates have no influence on the results of PortfolioCalculator: the
\* realized PnL, the cash and the equity of every snapshot are what they would
\* be with a rate of 1.0, every amount counting 1:1 whatever its currency.
C20_FxHasNoInfluence ==
    (program = "calculator" /\ clock > 0) =>
        /\ snap_args.performance.realized_pnl = AtPar.performance.realized_pnl
        /\ snap_args.cash = AtPar.cash
        /\ snap_args.total_equity = AtPar.total_equity

\* The tranches PortfolioCalculator holds, by symbol.
AllTranches(c) == [sym \in DOMAIN c.open_positions |-> c.open_positions[sym].tranches]

\* What a DIVIDEND does to PortfolioCalculator: cash and cumulative inflow rise
\* by the amount, the equity too at unchanged prices; trading and realized PnL,
\* the tranches and the ledger stay.
CalcDividendEffect ==
    /\ calc'.cash_balance_eur = calc.cash_balance_eur + last'.quantity
    /\ calc'.inflows_total = calc.inflows_total + last'.quantity
    /\ (snap_args.built /\ PricesUnchanged) =>
           snap_args'.total_equity = snap_args.total_equity + last'.quantity
    /\ calc'.cum_trading_pnl = calc.cum_trading_pnl
    /\ calc'.cum_realized_pnl = calc.cum_realized_pnl
    /\ AllTranches(calc') = AllTranches(calc)
    /\ calc'.closed_trades = calc.closed_trades

\* The same for the TradeProcessor of trade_logic.py, which keeps the equity
\* and the cumulative inflow.
LegacyDividendEffect ==
    /\ state'.total_equity = state.total_equity + last'.amount
    /\ state'.cum_inflow = state.cum_inflow + last'.amount
    /\ state'.cum_trading_pnl = state.cum_trading_pnl
    /\ state'.open_positions = state.open_positions

\* C21: a DIVIDEND raises cash and equity by its amount and counts toward the
\* cumulative net inflow, in PortfolioCalculator and in the TradeProcessor of
\* trade_logic.py alike, and leaves trading PnL, realized PnL, the open lots and
\* the closed-trade ledger as they were.
C21_DividendIsInflow ==
    [][ /\ (program = "calculator" /\ last'.type = "DIVIDEND") => CalcDividendEffect
        /\ (program = "legacy" /\ last'.type = "DIVIDEND") => LegacyDividendEffect ]_vars

\* The signed amount of a cash event of PortfolioCalculator, in EUR.
SignedAmount(t) ==
    ConvertToEur(IF t.type = "DEPOSIT" THEN t.quantity ELSE -t.quantity, t)

\* C22: a deposit raises and a withdrawal lowers cash and cumulative net inflow
\* by exactly the amount of the event (in EUR), and changes nothing else: tranches,
\* the closed-trade ledger, the three cumulative PnL tiers, the cumulative fees
\* and the win/loss statistics stay, in PortfolioCalculator and in the
\* TradeProcessor of py_portfolio.
C22_CashMovesCashAndInflowOnly ==
    [][ /\ (program = "calculator" /\ IsCash(last')) =>
              /\ calc'.cash_balance_eur = calc.cash_balance_eur + SignedAmount(last')
              /\ calc'.inflows_total = calc.inflows_total + SignedAmount(last')
              /\ AllTranches(calc') = AllTranches(calc)
              /\ calc'.closed_trades = calc.closed_trades
              /\ calc'.cum_trading_pnl = calc.cum_trading_pnl
              /\ calc'.cum_realized_pnl = calc.cum_realized_pnl
              /\ calc'.cum_accounting_pnl = calc.cum_accounting_pnl
              /\ calc'.cum_fees = calc.cum_fees
              /\ calc'.transaction_count = calc.transaction_count
        /\ (program = "portfolio" /\ last'.type \in {"INFLOW", "OUTFLOW"}) =>
              state' = [state EXCEPT
                          !.cash_balance = state.cash_balance + last'.amount,
                          !.cum_inflow = state.cum_inflow + last'.amount] ]_vars

\* A withdrawal was processed while a lot is open and a trade is closed.
C22_Witness ==
    /\ program = "portfolio"
    /\ last.type = "OUTFLOW"
    /\ state.open_positions # EmptyDict
    /\ \E sym \in DOMAIN state.open_positions : state.open_positions[sym] # <<>>
    /\ state.wins_trading + state.losses_trading > 0

\* A ratio metric that is a number: its denominator is not zero.
Finite(ratio) == ratio.den # 0

\* C23: the profit factor is defined and finite in every snapshot, of
\* PortfolioCalculator and of the TradeProcessor of py_portfolio, and neither it
\* nor win rate or expectancy divides by zero.
C23_ProfitFactorFinite ==
    /\ (program = "calculator" /\ snap_args.built) =>
          /\ Finite(snap_args.performance.profit_factor)
          /\ Finite(snap_args.performance.win_rate)
          /\ Finite(snap_args.performance.expectancy)
    /\ (program = "portfolio" /\ clock > 0) =>
          /\ Finite(processed.performance.profit_factor)
          /\ Finite(processed.performance.win_rate)

\* The ledger entries _calc_win_rate counts as wins, and those whose PnL
\* _calc_profit_factor adds to the gross wins and _calc_expectancy takes as wins.
WinsOfWinRate(closed_trades) ==
    {i \in 1..Len(closed_trades) : closed_trades[i].winning_trade}

WinsOfExpectancy(closed_trades) ==
    {i \in 1..Len(closed_trades) : closed_trades[i].gross_pnl > 0}

\* C24: PortfolioCalculator classifies wins from one PnL tier: the closed
\* trades counted as wins for the win rate are the trades whose PnL enters the
\* gross profit of the profit factor and that count as wins in the expectancy.
C24_WinsFromOneTier ==
    program = "calculator" =>
        WinsOfWinRate(calc.closed_trades) = WinsOfExpectancy(calc.closed_trades)

\* The lots of a position a sale of qty reaches, newest first: lot i is reached
\* when the lots opened after it hold less than qty together.
LotsReached(tranches, qty) ==
    {i \in 1..Len(tranches) :
        /\ qty > 0
        /\ SumSeq([j \in 1..(Len(tranches) - i) |-> tranches[i + j].quantity]) < qty}

\* The number of matches the last event made against the lots held before it.
MatchesOfLast ==
    IF last.type = "SELL" /\ last.symbol \in DOMAIN prior.open_positions
    THEN Cardinality(LotsReached(prior.open_positions[last.symbol].tranches,
                                 last.quantity))
    ELSE 0

\* C25: PortfolioCalculator's closed-trade ledger is append-only: after every
\* event the ledger held before it is a prefix of the ledger, one ClosedTrade
\* was appended per match (none by a BUY, a deposit, a withdrawal or a
\* dividend), and the closed_trades_count of the snapshot is the ledger length.
C25_LedgerAppendOnly ==
    (program = "calculator" /\ clock > 0) =>
        /\ Len(calc.closed_trades) = Len(prior.closed_trades) + MatchesOfLast
        /\ SubSeq(calc.closed_trades, 1, Len(prior.closed_trades)) = prior.closed_trades
        /\ \A i \in (Len(prior.closed_trades) + 1)..Len(calc.closed_trades) :
              calc.closed_trades[i].exit_id = last.id
        /\ snap_args.performance.closed_trades_count = Len(calc.closed_trades)

\* A sale that closes a lot after an earlier sale had closed another one.
C25_Witness ==
    /\ program = "calculator"
    /\ last.type = "SELL"
    /\ Len(prior.closed_trades) = 1
    /\ Len(calc.closed_trades) = 2

\* What a ClosedTrade says about its match: the lot, the quantity, the entry
\* price and, for an instrument held in EUR, the gross PnL.
MatchOf(ct) ==
    [entry_id |-> ct.entry_id,
     quantity |-> ct.quantity,
     entry_price |-> ct.entry_price,
     gross_pnl |-> IF CurrencyOf(ct.symbol) = "EUR" THEN ct.gross_pnl ELSE 0]

MatchesOf(closed_trades) ==
    [i \in 1..Len(closed_trades) |-> MatchOf(closed_trades[i])]

\* C26: FifoEngine.process_trade and PortfolioCalculator._handle_sell_lifo, fed
\* the same trades one after the other as main does, close the same lots in the
\* same order: their ledgers name the same entry id, quantity, entry price and
\* gross PnL, record by record.
C26_OneMatchingOrder ==
    program = "calculator" =>
        MatchesOf(fifo.closed_trades) = MatchesOf(calc.closed_trades)

\* The quantity of instrument s in the open lots and in the ledger of
\* PortfolioCalculator, and the same of FifoEngine.
OpenQuantity(c, s) ==
    IF s \in DOMAIN c.open_positions
    THEN SumSeq([i \in 1..Len(c.open_positions[s].tranches) |->
                    c.open_positions[s].tranches[i].quantity])
    ELSE 0

FifoOpenQuantity(f, s) ==
    IF s \in DOMAIN f.open_tranches
    THEN SumSeq([i \in 1..Len(f.open_tranches[s]) |-> f.open_tranches[s][i].quantity])
    ELSE 0

ClosedQuantity(closed_trades, s) ==
    SumSeq([i \in 1..Len(closed_trades) |->
               IF closed_trades[i].symbol = s THEN closed_trades[i].quantity ELSE 0])

\* The quantity the last event placed into lots of instrument s.
PlacedByLast(s) == IF last.type = "BUY" /\ last.symbol = s THEN last.quantity ELSE 0

\* C27: lot conservation in PortfolioCalculator and in FifoEngine: for every
\* instrument, each event leaves open quantity + closed quantity larger by
\* exactly the quantity it placed into lots (so that, from the empty start,
\* placed = open + closed), and a sale takes from the open lots exactly the
\* quantity its ClosedTrade records add up to.
C27_LotConservation ==
    /\ (program = "calculator" /\ clock > 0) =>
          \A s \in Symbols :
              OpenQuantity(calc, s) + ClosedQuantity(calc.closed_trades, s)
                  = OpenQuantity(prior, s) + ClosedQuantity(prior.closed_trades, s)
                    + PlacedByLast(s)
    /\ (program = "fifo_engine" /\ clock > 0) =>
          \A s \in Symbols :
              FifoOpenQuantity(fifo, s) + ClosedQuantity(fifo.closed_trades, s)
                  = FifoOpenQuantity(prior, s) + ClosedQuantity(prior.closed_trades, s)
                    + PlacedByLast(s)

\* A sale that closed one of the two units held and left the other one open.
C27_Witness ==
    /\ program = "calculator"
    /\ last.type = "SELL"
    /\ OpenQuantity(prior, last.symbol) = 2
    /\ OpenQuantity(calc, last.symbol) = 1
    /\ ClosedQuantity(calc.closed_trades, last.symbol) = 1

\* The last event was a trade of quantity zero.
ZeroQuantityTrade == last.type \in {"BUY", "SELL"} /\ last.quantity = 0

\* C28: a trade of quantity zero reaches no lot ledger: PortfolioCalculator and
\* both TradeProcessors hold after it the lots, the positions and the cash they
\* held before it, and it adds no ClosedTrade.
C28_ZeroQuantityRejected ==
    /\ (program = "calculator" /\ ZeroQuantityTrade) =>
          /\ AllTranches(calc) = AllTranches(prior)
          /\ calc.closed_trades = prior.closed_trades
          /\ calc.cash_balance_eur = prior.cash_balance_eur
    /\ (program \in {"portfolio", "legacy"} /\ ZeroQuantityTrade) =>
          state.open_positions = prior.open_positions

\* What the last event adds to the EUR totals of Portfolio when every lookup
\* returns a rate.
BookedInEur == last.amount * OneWhenMissing(last.currency, market).rate

\* C29: a missing FX rate loses no effect of an event in Portfolio: a dividend
\* of the reporting period adds its amount, at the rate found or at 1.0, to
\* dividends_eur, a transfer adds it to inflow_eur, and both reach the cash
\* balance of their currency.
C29_MissingRateKeepsEffect ==
    (program = "snapshot" /\ clock > 0) =>
        /\ state.cash_balance =
               AddCash(prior.cash_balance, last.currency, last.amount)
        /\ (last.type = "DIVIDEND" /\ last.date >= StartDate) =>
               state.dividends_eur = prior.dividends_eur + BookedInEur
        /\ (last.type = "TRANSACTION" /\ last.desc = TransferDesc) =>
               state.inflow_eur = prior.inflow_eur + BookedInEur

LoopReached ==
    /\ program \in {"fetcher", "datafetcher"}
    /\ last.type = "ASSET"
    /\ last.ticker # ""
    /\ StartDateOf(prior, last.isin, last.start_date_hint) <= prior.today

\* C31: update_asset asks the providers in list order, asks a provider only if
\* every one before it raised, and stops at the first that returns: the
\* providers called are 1..k, all before k raised, and the update returns True
\* and logs no failure exactly when provider k returned data.
C31_ProvidersInOrderUntilSuccess ==
    LoopReached =>
        LET k == Len(processed.calls)
        IN /\ k \in 1..NProviders
           /\ processed.calls = [i \in 1..k |-> i]
           /\ \A i \in 1..(k - 1) : last.answers[i].raises
           /\ k < NProviders => ~last.answers[k].raises
           /\ processed.result = ~last.answers[k].raises
           /\ processed.result => state.errors = prior.errors

\* The first provider raised and the second returned candles.
C31_Witness ==
    /\ program = "fetcher"
    /\ LoopReached
    /\ last.answers[1].raises
    /\ ~last.answers[2].raises
    /\ last.answers[2].dates # {}
    /\ processed.calls = <<1, 2>>
    /\ processed.result

\* Every provider raised in the last update.
AllProvidersFailed ==
    /\ LoopReached
    /\ \A i \in 1..NProviders : last.answers[i].raises

\* C32: when every provider fails, update_asset of an orchestrator with an
\* ErrorLogger has called each provider once, returns False, appends the one
\* record (isin, ticker, "All providers failed") to the error log and leaves
\* the cached files as they were.
C32_AllFailLogsOnceKeepsCache ==
    (program = "fetcher" /\ AllProvidersFailed) =>
        /\ processed.calls = [i \in 1..NProviders |-> i]
        /\ ~processed.result
        /\ ~processed.saved
        /\ state.errors = Append(prior.errors,
                                 [isin |-> last.isin, ticker |-> last.ticker,
                                  reason |-> "All providers failed"])
        /\ state.assets = prior.assets
        /\ state.fx = prior.fx

\* Every provider failed for an asset that has a cached file.
C32_Witness ==
    /\ program = "fetcher"
    /\ AllProvidersFailed
    /\ last.isin \in DOMAIN state.assets
    /\ Len(state.errors) = 1

\* The history of the cached file of an asset, empty when there is no file.
CachedHistory(f, isin) ==
    IF isin \in DOMAIN f.assets THEN f.assets[isin].history ELSE EmptyDict

\* The answer of the provider whose data the last update took.
TakenAnswer == last.answers[Len(processed.calls)]

UpToDate ==
    /\ program \in {"fetcher", "datafetcher"}
    /\ last.type = "ASSET"
    /\ last.isin \in DOMAIN prior.assets
    /\ prior.assets[last.isin].last_update >= prior.today

\* C34: an asset whose cached last_update is today or later is skipped:
\* update_asset returns True, calls no provider, saves nothing and logs nothing.
C34_UpToDateAssetSkipped ==
    UpToDate =>
        /\ processed.result
        /\ processed.calls = <<>>
        /\ ~processed.saved
        /\ state.assets = prior.assets
        /\ state.errors = prior.errors

\* An asset updated earlier the same day was asked for again.
C34_Witness ==
    /\ UpToDate
    /\ prior.assets[last.isin].history # EmptyDict
    /\ last.ticker # ""

\* The exit code of a run of main tells whether an update failed.
ExitCodeTellsFailure ==
    (program = "datafetcher" /\ state.exit_code # Running) =>
        /\ state.exit_code = IF state.fail_count > 0 THEN 1 ELSE 0
        /\ state.success_count + state.fail_count = clock

\* C35: a run of main in update mode records every failed asset update in
\* fetch_errors.csv, goes on with the next item after a failure, and exits
\* with 1 if an asset or FX update failed and with 0 if all succeeded.
C35_CliLogsFailuresAndExitCode ==
    /\ ExitCodeTellsFailure
    /\ (program = "datafetcher" /\ last.type = "ASSET" /\ ~processed.result) =>
          /\ Len(state.errors) = Len(prior.errors) + 1
          /\ state.errors[Len(state.errors)].isin = last.isin

\* The last lookup asked for something whose fetch had failed before it.
FailedBefore ==
    /\ program = "market_data"
    /\ \/ last.type = "PRICE" /\ last.name \in prior.failed_tickers
       \/ last.type = "RATE" /\ <<last.name, last.date>> \in prior.failed_fetches

\* The file the last lookup read.
FileOfLast == IF last.type = "PRICE" THEN "X" ELSE last.name

\* C36: MarketDataManager never repeats a failed lazy fetch: a failed fetch
\* puts its ticker (its pair and date for FX) on record, the record is never
\* shortened, and a lookup for a ticker, or a pair and date, on record starts
\* no fetch and, finding no value, returns the fallback 0.00 or 1.0.
C36_FailedFetchNotRepeated ==
    (program = "market_data" /\ clock > 0) =>
        /\ prior.failed_tickers \subseteq state.failed_tickers
        /\ prior.failed_fetches \subseteq state.failed_fetches
        /\ (processed.fetched /\ ~last.outcome.ok) =>
              IF last.type = "PRICE" THEN last.name \in state.failed_tickers
              ELSE <<last.name, last.date>> \in state.failed_fetches
        /\ FailedBefore =>
              /\ ~processed.fetched
              /\ state.files = prior.files
              /\ Found(prior, FileOfLast, last.date) = 0 =>
                    processed.value = IF last.type = "PRICE" THEN 0 ELSE 1

\* A price was asked for a ticker whose fetch had failed, on a date the files
\* do not cover: no fetch was started and the fallback was returned.
C36_Witness ==
    /\ FailedBefore
    /\ last.type = "PRICE"
    /\ ShouldFetch(prior, "X", last.date)
    /\ <<"X", last.name, last.date>> \notin prior.failed_fetches
    /\ ~processed.fetched
    /\ processed.value = 0

\* The ids of the elements of trades.xml, in the order of its three nodes.
XmlIds(root) ==
    [i \in DOMAIN root.Trades |-> root.Trades[i].id]
        \o [i \in DOMAIN root.Dividends |-> root.Dividends[i].id]
        \o [i \in DOMAIN root.DepositsWithdrawals |-> root.DepositsWithdrawals[i].id]

\* The records the last import added.
NewRecords == processed.new_trades \o processed.new_divs \o processed.new_deposits

\* C37: importing a CSV is idempotent: no record the import adds carries an
\* id trades.xml held before, no two elements of trades.xml share an id, and
\* the same file processed again against the ids of the updated trades.xml
\* yields no new trade, dividend or deposit.
C37_CsvImportIdempotent ==
    (program = "csv_parser" /\ last.type = "CSV") =>
        LET again == process_csv(last.rows, load_existing_ids(state))
            ids == XmlIds(state)
        IN /\ \A i \in DOMAIN NewRecords :
                  NewRecords[i].id \notin load_existing_ids(prior)
           /\ \A i, j \in DOMAIN ids : ids[i] = ids[j] => i = j
           /\ again.new_trades = <<>>
           /\ again.new_divs = <<>>
           /\ again.new_deposits = <<>>

\* A file with two rows of one id was imported into a trades.xml that held
\* some of its records already, and added the others once.
C37_Witness ==
    /\ program = "csv_parser"
    /\ last.type = "CSV"
    /\ \E i, j \in DOMAIN last.rows :
          i # j /\ RowRecord(last.rows[i]).id = RowRecord(last.rows[j]).id
    /\ \E i \in DOMAIN last.rows :
          RowRecord(last.rows[i]).id \in load_existing_ids(prior)
    /\ NewRecords # <<>>

\* The calculator has valued a portfolio without open positions, under price
\* files that hold no rate, so that every conversion is at 1.
FlatAtRateOne ==
    /\ program = "calculator"
    /\ market = "none"
    /\ snap_args.built
    /\ calc.open_positions = EmptyDict

\* C38: with all FX rates 1, whenever no position is open after an event,
\* total_equity - inflows_total equals the cumulative Real PnL, for any
\* sequence of events, a SELL of more than the quantity held included.
C38_FlatEquityIsRealPnl ==
    FlatAtRateOne =>
        snap_args.total_equity - calc.inflows_total = calc.cum_realized_pnl

\* The commissions the tranches of a position still carry.
TrancheCommissions(pos) ==
    SumSeq([k \in 1..Len(pos.tranches) |-> pos.tranches[k].commission])

====
